---- MODULE Spec2Model ----
(***************************************************************************)
(* Disk-backed request/response cache of the OpenRouter example scripts:   *)
(* request-cache.ts (folder-per-entry cache with shared sidecars), its     *)
(* single-file predecessor, and json-sidecar.ts (large-string codec).      *)
(*                                                                         *)
(* Texts (request bodies, response bodies, urls, keys, sidecar contents)   *)
(* are sequences of one-character strings.  JSON values are tagged records *)
(* [k, v]: k is the kind ("undef", "null", "bool", "num", "str", "arr",    *)
(* "obj"), v the payload.  An object is a sequence of <<key, value>> pairs *)
(* in property order.  The modelled alphabet has no quote, backslash or    *)
(* control character inside strings, so JSON string escapes do not occur;  *)
(* numbers are non-negative integers.                                      *)
(***************************************************************************)
EXTENDS Integers, Sequences, FiniteSets, TLC

(***************************************************************************)
(* JSON values                                                             *)
(***************************************************************************)
Undef == [k |-> "undef", v |-> 0]
Null == [k |-> "null", v |-> 0]
Bool(b) == [k |-> "bool", v |-> b]
Num(n) == [k |-> "num", v |-> n]
Str(s) == [k |-> "str", v |-> s]
Arr(a) == [k |-> "arr", v |-> a]
Obj(m) == [k |-> "obj", v |-> m]

Q == "\""
DigitChars == <<"0", "1", "2", "3", "4", "5", "6", "7", "8", "9">>
IsDigit(c) == \E d \in 1..10 : DigitChars[d] = c
DigitVal(c) == (CHOOSE d \in 1..10 : DigitChars[d] = c) - 1

\* Number.prototype.toString for a non-negative integer
RECURSIVE Digits(_)
Digits(n) == IF n < 10 THEN <<DigitChars[n + 1]>>
             ELSE Digits(n \div 10) \o <<DigitChars[(n % 10) + 1]>>

\* JS truthiness: `if (x)`, `!x`, `x && ...`
Truthy(x) ==
  CASE x.k = "undef" -> FALSE
    [] x.k = "null" -> FALSE
    [] x.k = "bool" -> x.v
    [] x.k = "num" -> x.v # 0
    [] x.k = "str" -> Len(x.v) > 0
    [] OTHER -> TRUE

\* typeof x === 'object' (true of null, arrays and objects)
TypeofObject(x) == x.k \in {"null", "arr", "obj"}

\* Object.entries(x): own enumerable [key, value] pairs; an array's keys
\* are its indices as decimal strings
Entries(x) ==
  CASE x.k = "obj" -> x.v
    [] x.k = "arr" -> [i \in 1..Len(x.v) |-> <<Digits(i - 1), x.v[i]>>]
    [] OTHER -> <<>>

\* `key in x` for an object or array x
HasKey(x, key) == \E i \in 1..Len(Entries(x)) : Entries(x)[i][1] = key

\* x[key] (undefined when absent)
Get(x, key) ==
  IF x.k \in {"obj", "arr"} /\ HasKey(x, key)
  THEN LET i == CHOOSE j \in 1..Len(Entries(x)) : Entries(x)[j][1] = key
       IN Entries(x)[i][2]
  ELSE Undef

\* result[key] = value on an object under construction: replaces the value
\* of an existing key in place, appends a new key
SetKey(m, key, val) ==
  IF \E i \in 1..Len(m) : m[i][1] = key
  THEN [i \in 1..Len(m) |-> IF m[i][1] = key THEN <<key, val>> ELSE m[i]]
  ELSE Append(m, <<key, val>>)

\* result[key] = value on an object created with `{}`: the key __proto__
\* reaches the accessor inherited from Object.prototype, which sets (or, for
\* a value that is not an object, ignores) the prototype and defines no own
\* property
ProtoKey == <<"_", "_", "p", "r", "o", "t", "o", "_", "_">>
AssignProperty(m, key, val) == IF key = ProtoKey THEN m ELSE SetKey(m, key, val)

(***************************************************************************)
(* JSON.stringify(value) without indentation                               *)
(***************************************************************************)
RECURSIVE JSONstringify(_)
RECURSIVE StringifyElems(_, _)
RECURSIVE StringifyMembers(_, _, _)

\* array elements from index i on; undefined elements serialize as null
StringifyElems(a, i) ==
  IF i > Len(a) THEN <<>>
  ELSE (IF i > 1 THEN <<",">> ELSE <<>>)
       \o (IF a[i].k = "undef" THEN <<"n", "u", "l", "l">> ELSE JSONstringify(a[i]))
       \o StringifyElems(a, i + 1)

\* object members from index i on; members whose value is undefined are
\* omitted (first tells whether a member was already written)
StringifyMembers(m, i, first) ==
  IF i > Len(m) THEN <<>>
  ELSE IF m[i][2].k = "undef" THEN StringifyMembers(m, i + 1, first)
  ELSE (IF first THEN <<>> ELSE <<",">>)
       \o <<Q>> \o m[i][1] \o <<Q, ":">> \o JSONstringify(m[i][2])
       \o StringifyMembers(m, i + 1, FALSE)

JSONstringify(x) ==
  CASE x.k = "null" -> <<"n", "u", "l", "l">>
    [] x.k = "bool" -> IF x.v THEN <<"t", "r", "u", "e">> ELSE <<"f", "a", "l", "s", "e">>
    [] x.k = "num" -> Digits(x.v)
    [] x.k = "str" -> <<Q>> \o x.v \o <<Q>>
    [] x.k = "arr" -> <<"[">> \o StringifyElems(x.v, 1) \o <<"]">>
    [] x.k = "obj" -> <<"{">> \o StringifyMembers(x.v, 1, TRUE) \o <<"}">>

(***************************************************************************)
(* JSON.parse(text): recursive descent over the characters.  A parse       *)
(* result is [ok, val, next]: next is the index after the parsed value.    *)
(***************************************************************************)
ParseFail == [ok |-> FALSE, val |-> Undef, next |-> 0]
IsWs(c) == c \in {" ", "\n", "\t", "\r"}

RECURSIVE SkipWs(_, _)
SkipWs(s, i) == IF i <= Len(s) /\ IsWs(s[i]) THEN SkipWs(s, i + 1) ELSE i

\* does text s carry the characters of lit at index i
LitAt(s, i, lit) ==
  /\ i + Len(lit) - 1 <= Len(s)
  /\ \A j \in 1..Len(lit) : s[i + j - 1] = lit[j]

\* index of the first occurrence of character c in s at or after i (0 if none)
IndexOfChar(s, c, i) ==
  LET hits == {j \in i..Len(s) : s[j] = c}
  IN IF hits = {} THEN 0 ELSE CHOOSE j \in hits : \A h \in hits : j <= h

\* index after the last digit of the run of digits starting at i
RECURSIVE DigitsEnd(_, _)
DigitsEnd(s, i) == IF i <= Len(s) /\ IsDigit(s[i]) THEN DigitsEnd(s, i + 1) ELSE i

RECURSIVE DigitsValue(_, _, _)
DigitsValue(s, i, j) ==
  IF j < i THEN 0 ELSE DigitsValue(s, i, j - 1) * 10 + DigitVal(s[j])

\* string token: s[i] is the opening quote
ParseString(s, i) ==
  LET close == IndexOfChar(s, Q, i + 1)
  IN IF close = 0 THEN ParseFail
     ELSE [ok |-> TRUE, val |-> Str(SubSeq(s, i + 1, close - 1)), next |-> close + 1]

\* number token: s[i] is a digit; a leading zero ends the number
ParseNumber(s, i) ==
  LET e == IF s[i] = "0" THEN i + 1 ELSE DigitsEnd(s, i)
  IN [ok |-> TRUE, val |-> Num(DigitsValue(s, i, e - 1)), next |-> e]

RECURSIVE ParseValue(_, _)
RECURSIVE ParseElems(_, _, _)
RECURSIVE ParseMembers(_, _, _)

\* elements after "[" or ","; acc holds the elements parsed so far
ParseElems(s, i, acc) ==
  LET r == ParseValue(s, SkipWs(s, i))
      j == SkipWs(s, r.next)
  IN IF ~r.ok \/ j > Len(s) THEN ParseFail
     ELSE IF s[j] = "," THEN ParseElems(s, j + 1, Append(acc, r.val))
     ELSE IF s[j] = "]" THEN [ok |-> TRUE, val |-> Arr(Append(acc, r.val)), next |-> j + 1]
     ELSE ParseFail

\* members after "{" or ","; a repeated key keeps its first position and
\* takes the last value
ParseMembers(s, i, acc) ==
  LET ki == SkipWs(s, i)
      kr == IF ki <= Len(s) /\ s[ki] = Q THEN ParseString(s, ki) ELSE ParseFail
      ci == IF kr.ok THEN SkipWs(s, kr.next) ELSE 0
      r == IF kr.ok /\ ci <= Len(s) /\ s[ci] = ":"
           THEN ParseValue(s, SkipWs(s, ci + 1)) ELSE ParseFail
      j == IF r.ok THEN SkipWs(s, r.next) ELSE 0
  IN IF ~r.ok \/ j > Len(s) THEN ParseFail
     ELSE IF s[j] = "," THEN ParseMembers(s, j + 1, SetKey(acc, kr.val.v, r.val))
     ELSE IF s[j] = "}" THEN [ok |-> TRUE, val |-> Obj(SetKey(acc, kr.val.v, r.val)), next |-> j + 1]
     ELSE ParseFail

ParseValue(s, i) ==
  IF i > Len(s) THEN ParseFail
  ELSE IF s[i] = Q THEN ParseString(s, i)
  ELSE IF IsDigit(s[i]) THEN ParseNumber(s, i)
  ELSE IF LitAt(s, i, <<"n", "u", "l", "l">>) THEN [ok |-> TRUE, val |-> Null, next |-> i + 4]
  ELSE IF LitAt(s, i, <<"t", "r", "u", "e">>) THEN [ok |-> TRUE, val |-> Bool(TRUE), next |-> i + 4]
  ELSE IF LitAt(s, i, <<"f", "a", "l", "s", "e">>) THEN [ok |-> TRUE, val |-> Bool(FALSE), next |-> i + 5]
  ELSE IF s[i] = "["
       THEN LET j == SkipWs(s, i + 1)
            IN IF j <= Len(s) /\ s[j] = "]"
               THEN [ok |-> TRUE, val |-> Arr(<<>>), next |-> j + 1]
               ELSE ParseElems(s, i + 1, <<>>)
  ELSE IF s[i] = "{"
       THEN LET j == SkipWs(s, i + 1)
            IN IF j <= Len(s) /\ s[j] = "}"
               THEN [ok |-> TRUE, val |-> Obj(<<>>), next |-> j + 1]
               ELSE ParseMembers(s, i + 1, <<>>)
  ELSE ParseFail

\* JSON.parse(text): ok = FALSE stands for the SyntaxError it throws
JSONparse(s) ==
  LET r == ParseValue(s, SkipWs(s, 1))
  IN IF r.ok /\ SkipWs(s, r.next) = Len(s) + 1
     THEN [ok |-> TRUE, val |-> r.val]
     ELSE [ok |-> FALSE, val |-> Undef]

(***************************************************************************)
(* Character helpers                                                       *)
(***************************************************************************)
\* String.prototype.indexOf(sub), 1-based; 0 stands for -1
IndexOf(s, sub) ==
  LET hits == {i \in 1..(Len(s) - Len(sub) + 1) : LitAt(s, i, sub)}
  IN IF hits = {} THEN 0 ELSE CHOOSE i \in hits : \A h \in hits : i <= h

\* String.prototype.slice(0, n)
Take(s, n) == SubSeq(s, 1, IF n < Len(s) THEN n ELSE Len(s))

\* String.prototype.slice(n), n counted from 0
Drop(s, n) == SubSeq(s, n + 1, Len(s))

\* The SHA-256 hex digest, truncated by the callers (slice(0, 16) for cache
\* keys, slice(0, 12) for sidecar names), is taken to be collision-free:
\* the digest of a byte string is represented by the byte string itself.
Sha256Hex(bytes) == bytes

(***************************************************************************)
(* json-sidecar.ts                                                         *)
(***************************************************************************)
SIDECAR_MARKER == <<"_", "_", "S", "I", "D", "E", "C", "A", "R", "_", "_", ":">>
DEFAULT_THRESHOLD == 1000
SidecarSuffix == <<".", "s", "i", "d", "e", "c", "a", "r">>
DataScheme == <<"d", "a", "t", "a", ":">>
Base64Tag == <<";", "b", "a", "s", "e", "6", "4", ",">>

\* DATA_URL_REGEX = /^(data:[^;]+;base64,)(.+)$/ : the index of the last
\* character of group 1, or 0 when the string does not match.  [^;]+ cannot
\* cross a semicolon, so the first semicolon after "data:" must open
\* ";base64,"; (.+)$ needs at least one character and no line terminator.
DataUrlPrefixEnd(s) ==
  LET semi == IndexOfChar(s, ";", Len(DataScheme) + 1)
  IN IF /\ LitAt(s, 1, DataScheme)
        /\ semi > Len(DataScheme) + 1
        /\ LitAt(s, semi, Base64Tag)
        /\ Len(s) >= semi + Len(Base64Tag)
        /\ \A j \in (semi + Len(Base64Tag))..Len(s) : s[j] \notin {"\n", "\r"}
     THEN semi + Len(Base64Tag) - 1
     ELSE 0

\* one name for every content
hashValueConstant(value) == <<"h">>

\* hashValue(value): the digest names the sidecar of a content
hashValue(value) == Sha256Hex(value)

hasSidecarRef(value) == IndexOf(value, SIDECAR_MARKER) # 0

makeSidecarRef(hash) == SIDECAR_MARKER \o hash

\* [found, hash]: found = FALSE stands for the null result
extractSidecarHash(ref) ==
  LET idx == IndexOf(ref, SIDECAR_MARKER)
  IN IF idx = 0 THEN [found |-> FALSE, hash |-> <<>>]
     ELSE [found |-> TRUE, hash |-> Drop(ref, idx - 1 + Len(SIDECAR_MARKER))]

processLargeString(value) ==
  LET pe == DataUrlPrefixEnd(value)
  IN IF pe # 0
     THEN [ref |-> Take(value, pe) \o makeSidecarRef(hashValue(Drop(value, pe))),
           content |-> Drop(value, pe)]
     ELSE [ref |-> makeSidecarRef(hashValue(value)), content |-> value]

\* A directory of sidecar files: whether it exists, and its files as a
\* function from file name to content
NoDir == [exists |-> FALSE, files |-> <<>>]

\* an existing file is appended to instead of being replaced
WriteInDirAppending(dir, name, content) ==
  [dir EXCEPT !.files = [n \in DOMAIN dir.files \cup {name} |->
                           IF n # name THEN dir.files[n]
                           ELSE IF name \in DOMAIN dir.files THEN dir.files[n] \o content
                           ELSE content]]

\* writeFileSync(join(dir, name), content)
WriteInDir(dir, name, content) ==
  [dir EXCEPT !.files = [n \in DOMAIN dir.files \cup {name} |->
                           IF n = name THEN content ELSE dir.files[n]]]

\* a missing sidecar gives the empty string
restoreSidecarRefOrEmpty(value, dir) ==
  LET h == extractSidecarHash(value)
      path == h.hash \o SidecarSuffix
      markerIdx == IndexOf(value, SIDECAR_MARKER)
  IN IF ~h.found \/ h.hash = <<>> THEN value
     ELSE IF ~(dir.exists /\ path \in DOMAIN dir.files) THEN <<>>
     ELSE IF markerIdx > 1 THEN Take(value, markerIdx - 1) \o dir.files[path]
     ELSE dir.files[path]

restoreSidecarRef(value, dir) ==
  LET h == extractSidecarHash(value)
      path == h.hash \o SidecarSuffix
      markerIdx == IndexOf(value, SIDECAR_MARKER)
  IN IF ~h.found \/ h.hash = <<>> THEN value
     ELSE IF ~(dir.exists /\ path \in DOMAIN dir.files) THEN value
     ELSE IF markerIdx > 1 THEN Take(value, markerIdx - 1) \o dir.files[path]
     ELSE dir.files[path]

\* the length test made inclusive
ReplacerInclusive(val, threshold) ==
  IF val.k = "str" /\ Len(val.v) >= threshold
  THEN Str(processLargeString(val.v).ref)
  ELSE val

\* the replacer of stringify applied to one value
Replacer(val, threshold) ==
  IF val.k = "str" /\ Len(val.v) > threshold
  THEN Str(processLargeString(val.v).ref)
  ELSE val

\* the sidecar named by the digest of its content, not by what
\* extractSidecarHash reads in the placeholder
ReplacerSidecarsByDigest(val, threshold, sidecars) ==
  IF val.k = "str" /\ Len(val.v) > threshold
  THEN LET p == processLargeString(val.v)
       IN SetKey(sidecars, hashValue(p.content) \o SidecarSuffix, p.content)
  ELSE sidecars

\* the sidecars Map after the replacer has seen val
ReplacerSidecars(val, threshold, sidecars) ==
  IF val.k = "str" /\ Len(val.v) > threshold
  THEN LET p == processLargeString(val.v)
           h == extractSidecarHash(p.ref)
       IN IF h.found /\ h.hash # <<>>
          THEN SetKey(sidecars, h.hash \o SidecarSuffix, p.content)
          ELSE sidecars
  ELSE sidecars

\* The document JSON.stringify(value, replacer, 2) writes, as the value its
\* text parses to: the replacer is applied to every value before it is
\* serialized, undefined members are dropped, undefined elements are null
RECURSIVE EncodeDoc(_, _)
RECURSIVE EncodeElems(_, _, _)
RECURSIVE EncodeMembers(_, _, _)
EncodeElems(a, i, threshold) ==
  IF i > Len(a) THEN <<>>
  ELSE <<IF Replacer(a[i], threshold).k = "undef" THEN Null ELSE EncodeDoc(a[i], threshold)>>
       \o EncodeElems(a, i + 1, threshold)
EncodeMembers(m, i, threshold) ==
  IF i > Len(m) THEN <<>>
  ELSE (IF Replacer(m[i][2], threshold).k = "undef" THEN <<>>
        ELSE << <<m[i][1], EncodeDoc(m[i][2], threshold)>> >>)
       \o EncodeMembers(m, i + 1, threshold)
EncodeDoc(x, threshold) ==
  LET r == Replacer(x, threshold)
  IN CASE r.k = "arr" -> Arr(EncodeElems(r.v, 1, threshold))
       [] r.k = "obj" -> Obj(EncodeMembers(r.v, 1, threshold))
       [] OTHER -> r

\* the sidecars Map filled by the replacer during that serialization
RECURSIVE CollectSidecars(_, _, _)
RECURSIVE CollectSeq(_, _, _, _)
CollectSeq(vals, i, threshold, sidecars) ==
  IF i > Len(vals) THEN sidecars
  ELSE CollectSeq(vals, i + 1, threshold, CollectSidecars(vals[i], threshold, sidecars))
CollectSidecars(x, threshold, sidecars) ==
  CASE x.k = "str" -> ReplacerSidecars(x, threshold, sidecars)
    [] x.k = "arr" -> CollectSeq(x.v, 1, threshold, sidecars)
    [] x.k = "obj" -> CollectSeq([i \in 1..Len(x.v) |-> x.v[i][2]], 1, threshold, sidecars)
    [] OTHER -> sidecars

\* the loop that writes every entry of the sidecars Map
RECURSIVE WriteSidecars(_, _, _)
WriteSidecars(dir, sidecars, i) ==
  IF i > Len(sidecars) THEN dir
  ELSE WriteSidecars(WriteInDir(dir, sidecars[i][1], sidecars[i][2]), sidecars, i + 1)

\* stringify(value, mainFilePath, {sidecarDir, threshold}): the document and
\* the sidecar directory it leaves
stringify(value, dir, threshold) ==
  [json |-> EncodeDoc(value, threshold),
   dir |-> WriteSidecars([dir EXCEPT !.exists = TRUE],
                         CollectSidecars(value, threshold, <<>>), 1)]

\* parse(json, mainFilePath, {sidecarDir}): JSON.parse with the reviver,
\* which visits every value bottom-up
RECURSIVE parse(_, _)
parse(doc, dir) ==
  CASE doc.k = "str" ->
         IF hasSidecarRef(doc.v) THEN Str(restoreSidecarRef(doc.v, dir)) ELSE doc
    [] doc.k = "arr" -> Arr([i \in 1..Len(doc.v) |-> parse(doc.v[i], dir)])
    [] doc.k = "obj" ->
         Obj([i \in 1..Len(doc.v) |-> <<doc.v[i][1], parse(doc.v[i][2], dir)>>])
    [] OTHER -> doc

\* hasUnresolvedRefs(obj)
RECURSIVE hasUnresolvedRefs(_)
hasUnresolvedRefs(x) ==
  CASE x.k = "str" -> hasSidecarRef(x.v)
    [] x.k = "arr" -> \E i \in 1..Len(x.v) : hasUnresolvedRefs(x.v[i])
    [] x.k = "obj" -> \E i \in 1..Len(x.v) : hasUnresolvedRefs(x.v[i][2])
    [] OTHER -> FALSE

(***************************************************************************)
(* request-cache.ts: keys, metadata extraction                             *)
(***************************************************************************)
Kmodel == <<"m", "o", "d", "e", "l">>
Kprovider == <<"p", "r", "o", "v", "i", "d", "e", "r">>
Kerror == <<"e", "r", "r", "o", "r">>
Kmessage == <<"m", "e", "s", "s", "a", "g", "e">>
Kjson == <<"j", "s", "o", "n">>
Ktext == <<"t", "e", "x", "t">>
Kkey == <<"k", "e", "y">>
Kurl == <<"u", "r", "l">>
Kmethod == <<"m", "e", "t", "h", "o", "d">>
Kstatus == <<"s", "t", "a", "t", "u", "s">>
KstatusText == <<"s", "t", "a", "t", "u", "s", "T", "e", "x", "t">>
Kheaders == <<"h", "e", "a", "d", "e", "r", "s">>
Kbody == <<"b", "o", "d", "y">>
Ktimestamp == <<"t", "i", "m", "e", "s", "t", "a", "m", "p">>
KtimestampISO == <<"t", "i", "m", "e", "s", "t", "a", "m", "p", "I", "S", "O">>
KresponseSummary == <<"r", "e", "s", "p", "o", "n", "s", "e", "S", "u", "m", "m", "a", "r", "y">>
Ksuccess == <<"s", "u", "c", "c", "e", "s", "s">>
KerrorMessage == <<"e", "r", "r", "o", "r", "M", "e", "s", "s", "a", "g", "e">>
KstackTrace == <<"s", "t", "a", "c", "k", "T", "r", "a", "c", "e">>
KcallerFile == <<"c", "a", "l", "l", "e", "r", "F", "i", "l", "e">>
POST == <<"P", "O", "S", "T">>
Ellipsis == <<".", ".", ".">>
SummaryMaxLen == 500
MaxFrames == 5

\* String(x) of a JSON value
RECURSIVE ToStringJS(_)
RECURSIVE JoinJS(_, _)
JoinJS(a, i) ==
  IF i > Len(a) THEN <<>>
  ELSE (IF i > 1 THEN <<",">> ELSE <<>>)
       \o (IF a[i].k \in {"null", "undef"} THEN <<>> ELSE ToStringJS(a[i]))
       \o JoinJS(a, i + 1)
ToStringJS(x) ==
  CASE x.k = "str" -> x.v
    [] x.k = "arr" -> JoinJS(x.v, 1)
    [] x.k = "obj" -> <<"[", "o", "b", "j", "e", "c", "t", " ", "O", "b", "j", "e", "c", "t", "]">>
    [] x.k = "undef" -> <<"u", "n", "d", "e", "f", "i", "n", "e", "d">>
    [] OTHER -> JSONstringify(x)

\* new Date(ms).toISOString() for 0 <= ms < 1000
ToISOString(ms) ==
  <<"1", "9", "7", "0", "-", "0", "1", "-", "0", "1", "T",
    "0", "0", ":", "0", "0", ":", "0", "0", ".">>
  \o (IF ms < 10 THEN <<"0", "0">> ELSE IF ms < 100 THEN <<"0">> ELSE <<>>)
  \o Digits(ms) \o <<"Z">>

\* A stack line as getStackTrace sees it: internal tells whether the line
\* includes 'request-cache.ts', 'node:internal' or 'node_modules'; matched
\* whether the frame pattern matches; frame is `${relPath}:${line}:${col}`.
getStackTrace(lines) ==
  LET CallerFrame(l) == ~l.internal /\ l.matched
      kept == SelectSeq(lines, CallerFrame)
      frames == [i \in 1..Len(kept) |-> kept[i].frame]
  IN [frames |-> Take(frames, MaxFrames),
      callerFile |-> IF Len(frames) > 0 THEN Str(frames[1]) ELSE Undef]

RECURSIVE CopyEntries(_, _, _)
CopyEntries(entries, i, normalized) ==
  IF i > Len(entries) THEN normalized
  ELSE CopyEntries(entries, i + 1, AssignProperty(normalized, entries[i][1], entries[i][2]))

normalizeRequestBody(body) ==
  IF ~Truthy(body) \/ ~TypeofObject(body) THEN body
  ELSE Obj(CopyEntries(Entries(body), 1, <<>>))

\* hash.update(url); hash.update(JSON.stringify(normalized)) digests the
\* concatenation of the two byte strings
getCacheKey(url, body) == Sha256Hex(url \o JSONstringify(normalizeRequestBody(body)))

extractModel(body) ==
  IF Truthy(body) /\ TypeofObject(body) /\ HasKey(body, Kmodel)
  THEN Str(ToStringJS(Get(body, Kmodel)))
  ELSE Null

extractProvider(body) ==
  IF Truthy(body) /\ TypeofObject(body) /\ HasKey(body, Kprovider)
  THEN Get(body, Kprovider)
  ELSE Undef

\* the message returned whatever its type
extractErrorMessageAnyType(body) ==
  LET json == Get(body, Kjson)
      error == Get(json, Kerror)
  IN IF /\ Truthy(json) /\ TypeofObject(json)
        /\ Truthy(error) /\ TypeofObject(error)
     THEN Get(error, Kmessage)
     ELSE Undef

extractErrorMessage(body) ==
  LET json == Get(body, Kjson)
      error == Get(json, Kerror)
  IN IF /\ Truthy(json) /\ TypeofObject(json)
        /\ Truthy(error) /\ TypeofObject(error)
        /\ Get(error, Kmessage).k = "str"
     THEN Get(error, Kmessage)
     ELSE Undef

Summarize(str, maxLen) == IF Len(str) > maxLen THEN Take(str, maxLen) \o Ellipsis ELSE str

getResponseSummary(body, maxLen) ==
  IF Truthy(Get(body, Kjson)) THEN Summarize(JSONstringify(Get(body, Kjson)), maxLen)
  ELSE IF Truthy(Get(body, Ktext)) THEN Summarize(Get(body, Ktext).v, maxLen)
  ELSE <<>>

(***************************************************************************)
(* The cache on disk.  fs = [folders, meta, request, response, sidecarDir]:*)
(* folders is the set of keys whose folder exists under .cache/requests;   *)
(* meta, request and response map the keys whose meta.json, request.json,  *)
(* response.json exists to the file's content; sidecarDir is the shared    *)
(* .cache/sidecars directory.  The content of a JSON file is represented   *)
(* by the value its text parses to; Garbage is a text JSON.parse rejects.  *)
(***************************************************************************)
Garbage == [k |-> "garbage", v |-> 0]
EmptyFs == [folders |-> {}, meta |-> <<>>, request |-> <<>>, response |-> <<>>,
            sidecarDir |-> NoDir]

\* writeFileSync(path, text) on one of the three per-entry files
WriteFile(files, key, content) ==
  [q \in DOMAIN files \cup {key} |-> IF q = key THEN content ELSE files[q]]

\* text that does not parse is read as an empty object
ParseFileLenient(content) ==
  IF content = Garbage THEN [ok |-> TRUE, val |-> Obj(<<>>)] ELSE [ok |-> TRUE, val |-> content]

\* JSON.parse(readFileSync(path, 'utf-8'))
ParseFile(content) ==
  IF content = Garbage THEN [ok |-> FALSE, val |-> Undef] ELSE [ok |-> TRUE, val |-> content]

\* The document JSON.stringify(value, null, 2) writes, as the value its text
\* parses to: undefined members are dropped, undefined elements are null
RECURSIVE JSONdoc(_)
RECURSIVE DocElems(_, _)
RECURSIVE DocMembers(_, _)
DocElems(a, i) ==
  IF i > Len(a) THEN <<>>
  ELSE <<IF a[i].k = "undef" THEN Null ELSE JSONdoc(a[i])>> \o DocElems(a, i + 1)
DocMembers(m, i) ==
  IF i > Len(m) THEN <<>>
  ELSE (IF m[i][2].k = "undef" THEN <<>> ELSE << <<m[i][1], JSONdoc(m[i][2])>> >>)
       \o DocMembers(m, i + 1)
JSONdoc(x) ==
  CASE x.k = "arr" -> Arr(DocElems(x.v, 1))
    [] x.k = "obj" -> Obj(DocMembers(x.v, 1))
    [] OTHER -> x

\* [found, meta, response]: found = FALSE stands for the null result
NotCached == [found |-> FALSE, meta |-> Undef, response |-> Undef]
getCachedResponse(f, url, body) ==
  LET key == getCacheKey(url, body)
  IN IF key \notin DOMAIN f.meta \/ key \notin DOMAIN f.response THEN NotCached
     ELSE IF ~ParseFile(f.meta[key]).ok \/ ~ParseFile(f.response[key]).ok THEN NotCached
     ELSE [found |-> TRUE,
           meta |-> ParseFile(f.meta[key]).val,
           response |-> ParseFile(f.response[key]).val]

\* the upper limit made inclusive
IsSuccessInclusive(status) == status >= 200 /\ status <= 300

\* 200 <= status < 300
IsSuccess(status) == status >= 200 /\ status < 300

\* the CacheMeta object cacheResponse builds
BuildMeta(key, url, requestBody, response, stackInfo) ==
  LET status == Get(response, Kstatus).v
      success == IsSuccess(status)
  IN Obj(<< <<Kkey, Str(key)>>,
            <<Kurl, Str(url)>>,
            <<Kmethod, Str(POST)>>,
            <<Kmodel, extractModel(requestBody)>>,
            <<Kprovider, extractProvider(requestBody)>>,
            <<Kstatus, Get(response, Kstatus)>>,
            <<KstatusText, Get(response, KstatusText)>>,
            <<Ktimestamp, Get(response, Ktimestamp)>>,
            <<KtimestampISO, Str(ToISOString(Get(response, Ktimestamp).v))>>,
            <<KresponseSummary, Str(getResponseSummary(Get(response, Kbody), SummaryMaxLen))>>,
            <<Ksuccess, Bool(success)>>,
            <<KerrorMessage, IF success THEN Undef ELSE extractErrorMessage(Get(response, Kbody))>>,
            <<KstackTrace, Arr([i \in 1..Len(stackInfo.frames) |-> Str(stackInfo.frames[i])])>>,
            <<KcallerFile, stackInfo.callerFile>> >>)

\* the steps of cacheResponse, in order
EnsureFolder(f, key) == [f EXCEPT !.folders = @ \cup {key}]
\* an existing meta.json is left as it is
WriteMetaOnce(f, key, meta) ==
  IF key \in DOMAIN f.meta THEN f ELSE [f EXCEPT !.meta = WriteFile(@, key, JSONdoc(meta))]

\* writeFileSync(paths.meta, JSON.stringify(meta, null, 2))
WriteMeta(f, key, meta) == [f EXCEPT !.meta = WriteFile(@, key, JSONdoc(meta))]
\* the sidecar directory recreated empty by every store
EnsureSidecarDirEmptied(f) == [f EXCEPT !.sidecarDir = [exists |-> TRUE, files |-> <<>>]]

\* mkdirSync(SIDECAR_DIR, {recursive: true}) when it does not exist
EnsureSidecarDir(f) == [f EXCEPT !.sidecarDir.exists = TRUE]
\* the request document written into every entry on disk
WriteRequestEverywhere(f, key, requestBody) ==
  LET e == stringify(requestBody, f.sidecarDir, DEFAULT_THRESHOLD)
  IN [f EXCEPT !.sidecarDir = e.dir,
               !.request = [q \in DOMAIN @ \cup {key} |-> e.json]]

\* JsonSidecar.writeFile(paths.request, requestBody, {sidecarDir: SIDECAR_DIR})
WriteRequest(f, key, requestBody) ==
  LET e == stringify(requestBody, f.sidecarDir, DEFAULT_THRESHOLD)
  IN [f EXCEPT !.sidecarDir = e.dir, !.request = WriteFile(@, key, e.json)]
\* JsonSidecar.writeFile(paths.response, response, {sidecarDir: SIDECAR_DIR})
WriteResponse(f, key, response) ==
  LET e == stringify(response, f.sidecarDir, DEFAULT_THRESHOLD)
  IN [f EXCEPT !.sidecarDir = e.dir, !.response = WriteFile(@, key, e.json)]

\* an existing entry is kept instead of being overwritten
cacheResponseKeepExisting(f, url, requestBody, response, stackInfo) ==
  LET key == getCacheKey(url, requestBody)
      f1 == EnsureFolder(f, key)
      f2 == WriteMeta(f1, key, BuildMeta(key, url, requestBody, response, stackInfo))
      f3 == EnsureSidecarDir(f2)
      f4 == WriteRequest(f3, key, requestBody)
  IN IF key \in DOMAIN f.meta THEN f ELSE WriteResponse(f4, key, response)

\* the store addresses a folder derived from the url alone
cacheResponseUnderUrlKey(f, url, requestBody, response, stackInfo) ==
  LET key == Sha256Hex(url)
      f1 == EnsureFolder(f, key)
      f2 == WriteMeta(f1, key, BuildMeta(key, url, requestBody, response, stackInfo))
      f3 == EnsureSidecarDir(f2)
      f4 == WriteRequest(f3, key, requestBody)
  IN WriteResponse(f4, key, response)

\* only successful responses are stored
cacheResponseSuccessOnly(f, url, requestBody, response, stackInfo) ==
  LET key == getCacheKey(url, requestBody)
      f1 == EnsureFolder(f, key)
      f2 == WriteMeta(f1, key, BuildMeta(key, url, requestBody, response, stackInfo))
      f3 == EnsureSidecarDir(f2)
      f4 == WriteRequest(f3, key, requestBody)
  IN IF IsSuccess(Get(response, Kstatus).v) THEN WriteResponse(f4, key, response) ELSE f

cacheResponse(f, url, requestBody, response, stackInfo) ==
  LET key == getCacheKey(url, requestBody)
      f1 == EnsureFolder(f, key)
      f2 == WriteMeta(f1, key, BuildMeta(key, url, requestBody, response, stackInfo))
      f3 == EnsureSidecarDir(f2)
      f4 == WriteRequest(f3, key, requestBody)
  IN WriteResponse(f4, key, response)

(***************************************************************************)
(* createCachedFetch: the wrapper as a state machine.  A wrapper call runs *)
(* synchronously up to `await fetch(...)`, resumes when the transport      *)
(* settles, awaits `clone.text()`, and finishes synchronously.             *)
(***************************************************************************)
\* bounds of the model
NCalls == 2
MaxInvocations == 2
MaxTime == 2

Calls == 1..NCalls

\* A wrapper call: pc is where it stands, seq its number, url/method/body its
\* arguments, requestBody the parsed body, path the branch it took, sent the
\* arguments it gave the transport, cachedTimestamp the timestamp of the
\* entry its lookup returned (-1 if none), upstream the transport's response,
\* stored the snapshot it handed to cacheResponse, result what its promise
\* settled with, fetched how often it called the transport.
\* A Response object: origin tells the transport's own object from one the
\* wrapper constructed; headers are <<name, value>> pairs in Headers order
NoResp == [status |-> 0, statusText |-> <<>>, headers |-> <<>>, body |-> <<>>,
           origin |-> "none", bodyUsed |-> FALSE]
NoResult == [kind |-> "none", resp |-> NoResp, err |-> "none"]

\* new Response(bodyText, {status, statusText, headers})
NewResponse(bodyText, status, statusText, headers) ==
  [status |-> status, statusText |-> statusText, headers |-> headers,
   body |-> bodyText, origin |-> "new", bodyUsed |-> FALSE]

\* init.body: present = FALSE stands for undefined
BodyNone == [present |-> FALSE, text |-> <<>>]
BodyOf(text) == [present |-> TRUE, text |-> text]

\* the inputs of the model
Url1 == <<"u">>
ReqObject == <<"{", Q, "m", "o", "d", "e", "l", Q, ":", Q, "x", Q, "}">>
\* the same object with insignificant whitespace
ReqObjectSpaced == <<"{", " ", Q, "m", "o", "d", "e", "l", Q, ":", " ", Q, "x", Q, " ", "}">>
ReqNumber == <<"1">>
ReqNotJson == <<"{", "x">>
Urls == {Url1}
\* the (method, init.body) pairs the wrapper is called with
Inits == { <<"GET", BodyOf(ReqObject)>>, <<"POST", BodyNone>>, <<"POST", BodyOf(<<>>)>>,
           <<"POST", BodyOf(ReqNotJson)>>, <<"POST", BodyOf(ReqObject)>>,
           <<"POST", BodyOf(ReqObjectSpaced)>>, <<"POST", BodyOf(ReqNumber)>> }
TTLs == {0, 1}
UserLine == [internal |-> FALSE, matched |-> TRUE, frame |-> <<"a", ":", "1", ":", "2">>]
CacheLine == [internal |-> TRUE, matched |-> TRUE, frame |-> <<"c", ":", "3", ":", "4">>]
Stacks == {<<CacheLine, UserLine>>}
\* a frame of the runtime, a line the frame pattern does not match, and the
\* frame of a caller in a given file
RuntimeLine == [internal |-> TRUE, matched |-> TRUE, frame |-> <<"n", ":", "5", ":", "6">>]
UnmatchedLine == [internal |-> FALSE, matched |-> FALSE, frame |-> <<>>]
CallerLine(file) == [internal |-> FALSE, matched |-> TRUE, frame |-> <<file, ":", "1", ":", "2">>]
\* stacks with six, one and no frame of a caller
CallStacks ==
  { <<CacheLine, UnmatchedLine, CallerLine("a"), RuntimeLine, CallerLine("b"), CallerLine("c"),
      CallerLine("d"), CallerLine("e"), CallerLine("f")>>,
    <<CacheLine, CallerLine("g")>>,
    <<CacheLine, UnmatchedLine, RuntimeLine>> }

LongString == [i \in 1..(DEFAULT_THRESHOLD + 1) |-> "A"]
StatusOK == <<"O", "K">>
JsonHeader == << <<<<"c", "t">>, <<"j", "s", "o", "n">>>> >>
TransportResponse(status, statusText, headers, body) ==
  [status |-> status, statusText |-> statusText, headers |-> headers, body |-> body,
   origin |-> "transport", bodyUsed |-> FALSE]
Responses ==
  { TransportResponse(200, StatusOK, JsonHeader, <<"{", Q, "a", Q, ":", "1", "}">>),
    TransportResponse(200, StatusOK, JsonHeader, <<"{", Q, "a", Q, ":", " ", "1", "}">>),
    TransportResponse(200, StatusOK, JsonHeader, <<Q>> \o LongString \o <<Q>>),
    TransportResponse(299, <<>>, <<>>, <<>>),
    TransportResponse(300, <<"M", "C">>, <<>>, <<"h", "i">>),
    TransportResponse(500, <<"I", "S", "E">>, JsonHeader,
      <<"{", Q>> \o Kerror \o <<Q, ":", "{", Q>> \o Kmessage \o <<Q, ":", Q, "n", "o", Q, "}", "}">>) }

VARIABLES
  enabled,        \* options.enabled of createCachedFetch
  ttlMs,          \* options.ttlMs of createCachedFetch
  now,            \* Date.now()
  fs,             \* the cache directories on disk
  calls,          \* the wrapper calls in flight, per slot
  event,          \* the wrapper call invoked or event by the latest step, as that
                  \* step left it (Idle if the step did neither)
  invocations,    \* number of wrapper calls made so far
  transportCalls, \* number of calls of the real fetch so far
  captured,       \* per request <<url, body>>: what its last storing call captured
  lab             \* the exported functions called directly (not through the
                  \* wrapper): their arguments, results and the files they leave

wrapperVars == <<enabled, ttlMs, now, fs, calls, event, invocations, transportCalls, captured>>
vars == <<enabled, ttlMs, now, fs, calls, event, invocations, transportCalls, captured, lab>>

\* no direct call is in progress
NoLab == [op |-> "none"]

NoStack == [frames |-> <<>>, callerFile |-> Undef]
NoSent == [url |-> <<>>, method |-> "none", body |-> BodyNone]
Idle == [pc |-> "idle", seq |-> 0, url |-> <<>>, method |-> "none", body |-> BodyNone,
         requestBody |-> Undef, stack |-> <<>>, stackInfo |-> NoStack, path |-> "none", sent |-> NoSent,
         cachedTimestamp |-> -1,
         upstream |-> NoResp, stored |-> Undef, result |-> NoResult, fetched |-> 0]

Init ==
  /\ enabled \in BOOLEAN
  /\ ttlMs \in TTLs
  /\ now = 0
  /\ fs = EmptyFs
  /\ calls = [c \in Calls |-> Idle]
  /\ event = Idle
  /\ invocations = 0
  /\ transportCalls = 0
  /\ captured = <<>>
  /\ lab = NoLab

\* the method test left out
BypassIgnoringMethod(en, method, body) == ~en \/ ~body.present \/ body.text = <<>>

\* !enabled || init?.method !== 'POST' || !init.body
Bypass(en, method, body) == ~en \/ method # "POST" \/ ~body.present \/ body.text = <<>>

\* an unparsable body used as a string instead of passing through
ParseRequestBodyAsText(body) ==
  IF JSONparse(body.text).ok THEN JSONparse(body.text)
  ELSE [ok |-> TRUE, val |-> Str(body.text)]

\* a parseable body kept as its text instead of the parsed value
ParseRequestBodyVerbatim(body) ==
  IF JSONparse(body.text).ok THEN [ok |-> TRUE, val |-> Str(body.text)]
  ELSE JSONparse(body.text)

\* try { requestBody = JSON.parse(init.body) } catch { return fetch(input, init) }
ParseRequestBody(body) == JSONparse(body.text)

\* the comparison inverted
IsFreshInverted(age, ttl) == age >= ttl

\* the comparison made inclusive
IsFreshInclusive(age, ttl) == age <= ttl

\* age < ttlMs
IsFresh(age, ttl) == age < ttl

\* the json branch taken only for a truthy value
HitBodyTextTruthy(response) ==
  LET body == Get(response, Kbody)
  IN IF Truthy(Get(body, Kjson)) THEN JSONstringify(Get(body, Kjson))
     ELSE IF Get(body, Ktext).k \in {"undef", "null"} THEN <<>>
     ELSE Get(body, Ktext).v

\* the body text of the response synthesized on a hit
HitBodyText(response) ==
  LET body == Get(response, Kbody)
  IN IF Get(body, Kjson).k # "undef" THEN JSONstringify(Get(body, Kjson))
     ELSE IF Get(body, Ktext).k \in {"undef", "null"} THEN <<>>
     ELSE Get(body, Ktext).v

\* a Headers object built from the stored headers record
HeadersOf(record) == [i \in 1..Len(Entries(record)) |->
                        <<Entries(record)[i][1], Entries(record)[i][2].v>>]

\* the response synthesized on a hit
HitResponse(response) ==
  NewResponse(HitBodyText(response), Get(response, Kstatus).v,
              Get(response, KstatusText).v, HeadersOf(Get(response, Kheaders)))

\* body = { json: JSON.parse(bodyText) }, or { text: bodyText } when the
\* parse throws
CapturedBody(bodyText) ==
  IF JSONparse(bodyText).ok THEN Obj(<< <<Kjson, JSONparse(bodyText).val>> >>)
  ELSE Obj(<< <<Ktext, Str(bodyText)>> >>)

\* response.headers.forEach((value, key) => { headers[key] = value })
RECURSIVE HeadersRecord(_, _, _)
HeadersRecord(headers, i, record) ==
  IF i > Len(headers) THEN Obj(record)
  ELSE HeadersRecord(headers, i + 1, AssignProperty(record, headers[i][1], Str(headers[i][2])))

\* the CachedResponse object handed to cacheResponse
CachedResponseOf(resp, bodyText, timestamp) ==
  Obj(<< <<Kstatus, Num(resp.status)>>,
         <<KstatusText, Str(resp.statusText)>>,
         <<Kheaders, HeadersRecord(resp.headers, 1, <<>>)>>,
         <<Kbody, CapturedBody(bodyText)>>,
         <<Ktimestamp, Num(timestamp)>> >>)

\* response.clone(): a second Response object with a body stream of its own
Clone(resp) == [resp EXCEPT !.origin = "clone"]

\* the text read from the transport's response itself
BodySourceOriginal(resp) == resp

\* the object whose text() the wrapper awaits: const clone = response.clone()
BodySource(resp) == Clone(resp)

\* the transport's response after `await source.text()`: its body is used
\* if it is the object that was read
AfterText(resp, source) ==
  IF source.origin = resp.origin THEN [resp EXCEPT !.bodyUsed = TRUE] ELSE resp

\* the status text left out of the reconstructed response
MissResponseNoStatusText(resp, bodyText) ==
  NewResponse(bodyText, resp.status, <<>>, resp.headers)

\* the response returned on the miss/stale path
MissResponse(resp, bodyText) ==
  NewResponse(bodyText, resp.status, resp.statusText, resp.headers)

\* the stack as it is when the wrapper resumes after its awaits: frames of
\* request-cache.ts and of the runtime
ResumedStack == <<CacheLine, RuntimeLine>>

\* the frames captured anew by the store
StackInfoRecaptured(stackInfo, resumed) == getStackTrace(resumed)

\* cacheResponse(..., stackInfo) with `stackInfo ?? getStackTrace()`: the
\* wrapper passes what it captured on entry
StackInfoAtStore(stackInfo, resumed) ==
  IF stackInfo = Undef THEN getStackTrace(resumed) ELSE stackInfo

\* The wrapper is called: everything up to the first await.  A new call takes
\* the lowest free slot.
Invoke(c, url, method, body, stack) ==
  /\ calls[c].pc = "idle"
  /\ \A d \in Calls : d < c => calls[d].pc # "idle"
  /\ invocations < MaxInvocations
  /\ invocations' = invocations + 1
  /\ LET stackInfo == getStackTrace(stack)
         parsed == ParseRequestBody(body)
         started == [Idle EXCEPT !.seq = invocations + 1, !.url = url, !.method = method,
                                 !.body = body, !.stack = stack, !.stackInfo = stackInfo]
         fetching == [started EXCEPT !.sent = [url |-> url, method |-> method, body |-> body],
                                     !.fetched = 1]
     IN IF Bypass(enabled, method, body) \/ ~parsed.ok
        THEN \* return fetch(input, init)
             /\ calls' = [calls EXCEPT ![c] = [fetching EXCEPT !.pc = "pass", !.path = "pass"]]
             /\ transportCalls' = transportCalls + 1
             /\ event' = calls'[c]
        ELSE LET cached == getCachedResponse(fs, url, parsed.val)
                 age == now - Get(cached.response, Ktimestamp).v
             IN IF cached.found /\ IsFresh(age, ttlMs)
                THEN /\ event' = [started EXCEPT !.pc = "done", !.requestBody = parsed.val,
                                   !.path = "hit",
                                   !.cachedTimestamp = Get(cached.response, Ktimestamp).v,
                                   !.result = [kind |-> "response",
                                               resp |-> HitResponse(cached.response),
                                               err |-> "none"]]
                     /\ calls' = calls
                     /\ transportCalls' = transportCalls
                ELSE \* await fetch(input, init)
                     /\ calls' = [calls EXCEPT ![c] =
                                    [fetching EXCEPT !.pc = "fetch", !.requestBody = parsed.val,
                                       !.path = IF cached.found THEN "stale" ELSE "miss",
                                       !.cachedTimestamp =
                                          IF cached.found
                                          THEN Get(cached.response, Ktimestamp).v ELSE -1]]
                     /\ transportCalls' = transportCalls + 1
                     /\ event' = calls'[c]
  /\ UNCHANGED <<lab, enabled, ttlMs, now, fs, captured>>

\* The transport settles a pass-through call with a response: the wrapper's
\* promise resolves with that very object.
PassResolve(c, resp) ==
  /\ calls[c].pc = "pass"
  /\ event' = [calls[c] EXCEPT !.pc = "done", !.upstream = resp,
                !.result = [kind |-> "response", resp |-> resp, err |-> "none"]]
  /\ calls' = [calls EXCEPT ![c] = Idle]
  /\ UNCHANGED <<lab, enabled, ttlMs, now, fs, invocations, transportCalls, captured>>

\* The transport rejects a pass-through call.
PassReject(c) ==
  /\ calls[c].pc = "pass"
  /\ event' = [calls[c] EXCEPT !.pc = "done",
                !.result = [kind |-> "error", resp |-> NoResp, err |-> "transport"]]
  /\ calls' = [calls EXCEPT ![c] = Idle]
  /\ UNCHANGED <<lab, enabled, ttlMs, now, fs, invocations, transportCalls, captured>>

\* `await fetch(input, init)` resumes with a response; the wrapper clones it
\* and awaits clone.text().
FetchResolve(c, resp) ==
  /\ calls[c].pc = "fetch"
  /\ calls' = [calls EXCEPT ![c].pc = "read", ![c].upstream = resp]
  /\ event' = Idle
  /\ UNCHANGED <<lab, enabled, ttlMs, now, fs, invocations, transportCalls, captured>>

\* the entry folder and meta.json written although the transport failed
FetchRejectWritesEntry(c) ==
  /\ calls[c].pc = "fetch"
  /\ event' = [calls[c] EXCEPT !.pc = "done",
                 !.result = [kind |-> "error", resp |-> NoResp, err |-> "transport"]]
  /\ calls' = [calls EXCEPT ![c] = Idle]
  /\ fs' = WriteMeta(EnsureFolder(fs, getCacheKey(calls[c].url, calls[c].requestBody)),
                     getCacheKey(calls[c].url, calls[c].requestBody), Null)
  /\ UNCHANGED <<lab, enabled, ttlMs, now, invocations, transportCalls, captured>>

\* the entry's response.json removed when the transport fails
FetchRejectDropsEntry(c) ==
  /\ calls[c].pc = "fetch"
  /\ event' = [calls[c] EXCEPT !.pc = "done",
                 !.result = [kind |-> "error", resp |-> NoResp, err |-> "transport"]]
  /\ calls' = [calls EXCEPT ![c] = Idle]
  /\ fs' = [fs EXCEPT !.response =
              [k \in DOMAIN fs.response \ {getCacheKey(calls[c].url, calls[c].requestBody)}
                 |-> fs.response[k]]]
  /\ UNCHANGED <<lab, enabled, ttlMs, now, invocations, transportCalls, captured>>

\* `await fetch(input, init)` throws: the wrapper's promise rejects.
FetchReject(c) ==
  /\ calls[c].pc = "fetch"
  /\ event' = [calls[c] EXCEPT !.pc = "done",
                !.result = [kind |-> "error", resp |-> NoResp, err |-> "transport"]]
  /\ calls' = [calls EXCEPT ![c] = Idle]
  /\ UNCHANGED <<lab, enabled, ttlMs, now, fs, invocations, transportCalls, captured>>

\* the response returned before the store has run
ReadResolveBeforeStore(c) ==
  /\ calls[c].pc = "read"
  /\ LET resp == calls[c].upstream
         source == BodySource(resp)
         bodyText == source.body
         response == CachedResponseOf(resp, bodyText, now)
         returned == MissResponse(resp, bodyText)
     IN /\ event' = [calls[c] EXCEPT !.pc = "done", !.stored = response,
                      !.upstream = AfterText(resp, source),
                      !.result = [kind |-> "response", resp |-> returned, err |-> "none"]]
        /\ captured' = WriteFile(captured, <<calls[c].url, calls[c].requestBody>>,
                                 [timestamp |-> now, resp |-> returned, upstream |-> resp,
                                  bodyText |-> calls[c].body.text])
  /\ calls' = [calls EXCEPT ![c] = Idle]
  /\ UNCHANGED <<lab, enabled, ttlMs, now, fs, invocations, transportCalls>>

\* `await clone.text()` resumes with the body text: parse, store, return.
ReadResolve(c) ==
  /\ calls[c].pc = "read"
  /\ LET resp == calls[c].upstream
         source == BodySource(resp)
         bodyText == source.body
         response == CachedResponseOf(resp, bodyText, now)
         returned == MissResponse(resp, bodyText)
     IN /\ fs' = cacheResponse(fs, calls[c].url, calls[c].requestBody, response,
                               StackInfoAtStore(calls[c].stackInfo, ResumedStack))
        /\ event' = [calls[c] EXCEPT !.pc = "done", !.stored = response,
                      !.upstream = AfterText(resp, source),
                      !.result = [kind |-> "response", resp |-> returned, err |-> "none"]]
        /\ captured' = WriteFile(captured, <<calls[c].url, calls[c].requestBody>>,
                                 [timestamp |-> now, resp |-> returned, upstream |-> resp,
                                  bodyText |-> calls[c].body.text])
  /\ calls' = [calls EXCEPT ![c] = Idle]
  /\ UNCHANGED <<lab, enabled, ttlMs, now, invocations, transportCalls>>

\* `await clone.text()` throws (the body stream fails or is aborted).
ReadReject(c) ==
  /\ calls[c].pc = "read"
  /\ event' = [calls[c] EXCEPT !.pc = "done",
                !.result = [kind |-> "error", resp |-> NoResp, err |-> "body"]]
  /\ calls' = [calls EXCEPT ![c] = Idle]
  /\ UNCHANGED <<lab, enabled, ttlMs, now, fs, invocations, transportCalls, captured>>

\* The clock advances.
Tick ==
  /\ now < MaxTime
  /\ now' = now + 1
  /\ event' = Idle
  /\ UNCHANGED <<lab, enabled, ttlMs, fs, calls, invocations, transportCalls, captured>>

Next ==
  \/ \E c \in Calls, url \in Urls, init \in Inits, stack \in Stacks :
       Invoke(c, url, init[1], init[2], stack)
  \/ \E c \in Calls, resp \in Responses : PassResolve(c, resp)
  \/ \E c \in Calls : PassReject(c)
  \/ \E c \in Calls, resp \in Responses : FetchResolve(c, resp)
  \/ \E c \in Calls : FetchReject(c)
  \/ \E c \in Calls : ReadResolve(c)
  \/ \E c \in Calls : ReadReject(c)
  \/ Tick

Spec == Init /\ [][Next]_vars


(***************************************************************************)
(* getCacheKey called directly on two requests                             *)
(***************************************************************************)
\* getCacheKey of the single-file predecessor: the body is not normalized
getCacheKeySingleFile(url, body) == Sha256Hex(url \o JSONstringify(body))

Url2 == <<"u", "1">>
KeyUrls == {Url1, Url2}
KeyBodies ==
  { Null, Bool(TRUE), Num(1), Num(2), Num(12), Str(<<"a">>),
    Arr(<<Num(1)>>), Obj(<< <<<<"0">>, Num(1)>> >>), Obj(<< <<<<"a">>, Num(1)>> >>) }
KeyRequests == {[url |-> u, body |-> b] : u \in KeyUrls, b \in KeyBodies}

\* the wrapper at rest while the exported functions are called directly
WrapperAtRest ==
  /\ enabled = TRUE
  /\ ttlMs = 1
  /\ now = 0
  /\ fs = EmptyFs
  /\ calls = [c \in Calls |-> Idle]
  /\ event = Idle
  /\ invocations = 0
  /\ transportCalls = 0
  /\ captured = <<>>

KeyInit ==
  /\ WrapperAtRest
  /\ \E a \in KeyRequests, b \in KeyRequests :
       lab = [op |-> "key", a |-> a, b |-> b, done |-> FALSE,
              keyA |-> <<>>, keyB |-> <<>>, keyA0 |-> <<>>, keyB0 |-> <<>>]

\* both keys are derived, by request-cache.ts and by its predecessor
DeriveKeys ==
  /\ ~lab.done
  /\ lab' = [lab EXCEPT !.done = TRUE,
                        !.keyA = getCacheKey(lab.a.url, lab.a.body),
                        !.keyB = getCacheKey(lab.b.url, lab.b.body),
                        !.keyA0 = getCacheKeySingleFile(lab.a.url, lab.a.body),
                        !.keyB0 = getCacheKeySingleFile(lab.b.url, lab.b.body)]
  /\ UNCHANGED wrapperVars

KeyNext == DeriveKeys

KeySpec == KeyInit /\ [][KeyNext]_vars

(***************************************************************************)
(* json-sidecar.ts called directly: a sequence of encodes into one sidecar *)
(* directory, each followed by a decode; a sidecar file may be deleted in  *)
(* between.  writeFile and readFile are stringify and parse with the       *)
(* document kept in the main file.                                         *)
(***************************************************************************)
MaxEncodes == 2

\* `data:<mediaType>;base64,<payload>`
DataUrl(mediaType, payload) == DataScheme \o mediaType \o Base64Tag \o payload

Sab == <<"a", "b">>
Sabc == <<"a", "b", "c">>
Sabcd == <<"a", "b", "c", "d">>
CodecMediaTypes == {<<"t", "/", "p">>, <<"t", "/", "p", ";", "c", "=", "u">>, SIDECAR_MARKER \o <<"x">>}
CodecPayloads == {Sab, Sabc}
CodecStrings ==
  {<<>>, Sab, Sabc, makeSidecarRef(Sabc), DataUrl(<<"t", "/", "p">>, Sab)}
  \cup {DataUrl(m, Sabc) : m \in CodecMediaTypes}
CodecValues ==
  {Str(s) : s \in CodecStrings}
  \cup { Arr(<<Str(Sabc), Str(Sabc)>>),
         Arr(<<Str(Sabc), Str(DataUrl(<<"t", "/", "p">>, Sabc))>>),
         Arr(<<Str(Sabc), Str(makeSidecarRef(Sabc))>>),
         Obj(<< <<Sabc, Arr(<<Str(Sab), Obj(<< <<<<"k">>, Str(Sabc)>> >>),
                              Num(123), Null, Bool(TRUE),
                              Str(DataUrl(<<"t", "/", "p">>, Sab))>>)>> >>) }
CodecThresholds == {0, 2, 3, 30}

CodecInit ==
  /\ WrapperAtRest
  /\ lab = [op |-> "codec", phase |-> "idle", n |-> 0, dir |-> NoDir, before |-> NoDir,
            value |-> Null, threshold |-> 0, doc |-> Null, removed |-> {},
            decoded |-> Null, unresolved |-> FALSE]

\* stringify(value, mainFilePath, {threshold}) / writeFile
Encode(value, threshold) ==
  /\ lab.phase \in {"idle", "decoded"}
  /\ lab.n < MaxEncodes
  /\ LET e == stringify(value, lab.dir, threshold)
     IN lab' = [lab EXCEPT !.phase = "encoded", !.n = @ + 1, !.before = lab.dir,
                           !.dir = e.dir, !.value = value, !.threshold = threshold,
                           !.doc = e.json, !.removed = {}, !.decoded = Null,
                           !.unresolved = FALSE]
  /\ UNCHANGED wrapperVars

\* a sidecar file is deleted between the encode and the decode
RemoveSidecar(name) ==
  /\ lab.phase = "encoded"
  /\ lab.removed = {}
  /\ name \in DOMAIN lab.dir.files
  /\ lab' = [lab EXCEPT !.removed = {name},
                        !.dir.files = [q \in DOMAIN lab.dir.files \ {name} |->
                                         lab.dir.files[q]]]
  /\ UNCHANGED wrapperVars

\* parse(json, mainFilePath) / readFile, then hasUnresolvedRefs on the result
Decode ==
  /\ lab.phase = "encoded"
  /\ lab' = [lab EXCEPT !.phase = "decoded", !.decoded = parse(lab.doc, lab.dir),
                        !.unresolved = hasUnresolvedRefs(parse(lab.doc, lab.dir))]
  /\ UNCHANGED wrapperVars

CodecNext ==
  \/ \E value \in CodecValues, threshold \in CodecThresholds : Encode(value, threshold)
  \/ \E name \in DOMAIN lab.dir.files : RemoveSidecar(name)
  \/ Decode

CodecSpec == CodecInit /\ [][CodecNext]_vars

(***************************************************************************)
(* The wrapper on a cache directory in which entries get damaged: a file   *)
(* of an entry is deleted, or is left with text that does not parse (a     *)
(* write cut short).                                                       *)
(***************************************************************************)
DamagedKey == getCacheKey(Url1, JSONparse(ReqObject).val)

DamagedEntry(f, key, how) ==
  CASE how = "no meta" -> [f EXCEPT !.meta = [q \in DOMAIN f.meta \ {key} |-> f.meta[q]]]
    [] how = "no response" ->
         [f EXCEPT !.response = [q \in DOMAIN f.response \ {key} |-> f.response[q]]]
    [] how = "bad meta" -> [f EXCEPT !.meta = WriteFile(@, key, Garbage)]
    [] how = "bad response" -> [f EXCEPT !.response = WriteFile(@, key, Garbage)]

DamagedInit ==
  /\ enabled = TRUE
  /\ ttlMs = 1
  /\ now = 0
  /\ fs = EmptyFs
  /\ calls = [c \in Calls |-> Idle]
  /\ event = Idle
  /\ invocations = 0
  /\ transportCalls = 0
  /\ captured = <<>>
  /\ lab = NoLab

\* the whole entry under DamagedKey is damaged from outside the wrapper
Damage(how) ==
  /\ DamagedKey \in DOMAIN fs.meta
  /\ DamagedKey \in DOMAIN fs.response
  /\ fs.meta[DamagedKey] # Garbage
  /\ fs.response[DamagedKey] # Garbage
  /\ fs' = DamagedEntry(fs, DamagedKey, how)
  /\ event' = Idle
  /\ UNCHANGED <<lab, enabled, ttlMs, now, calls, invocations, transportCalls, captured>>

\* calls for the request of the damaged entry
DamagedNext ==
  \/ \E c \in Calls, stack \in Stacks : Invoke(c, Url1, "POST", BodyOf(ReqObject), stack)
  \/ \E c \in Calls, resp \in Responses : FetchResolve(c, resp)
  \/ \E c \in Calls : FetchReject(c)
  \/ \E c \in Calls : ReadResolve(c)
  \/ \E c \in Calls : ReadReject(c)
  \/ \E how \in {"no meta", "no response", "bad meta", "bad response"} : Damage(how)
  \/ Tick

DamagedSpec == DamagedInit /\ [][DamagedNext]_vars

(***************************************************************************)
(* cacheResponse called directly on a sequence of requests and responses   *)
(***************************************************************************)
MaxStores == 2

StoreBodies ==
  { Obj(<< <<Kmodel, Str(<<"x">>)>> >>),
    Obj(<< <<Kmodel, Str(<<"x">>)>>, <<Kprovider, Str(<<"p">>)>> >>),
    Obj(<< <<Kmodel, Str(<<"x">>)>>, <<Kprovider, Str(LongString)>> >>) }

\* an error object with the given message, as response text
ErrorText(message) ==
  <<"{", Q>> \o Kerror \o <<Q, ":", "{", Q>> \o Kmessage \o <<Q, ":">> \o message \o <<"}", "}">>
\* <<status, body text>>: a message with a status in and out of [200, 300),
\* an empty message, a message that is a number, an error that is a string,
\* an error that is null, a body that is not JSON
ErrorCases ==
  { <<200, ErrorText(<<Q, "n", "o", Q>>)>>, <<299, ErrorText(<<Q, "n", "o", Q>>)>>,
    <<300, ErrorText(<<Q, "n", "o", Q>>)>>, <<199, ErrorText(<<Q, "n", "o", Q>>)>>,
    <<500, ErrorText(<<Q, Q>>)>>, <<500, ErrorText(<<"5">>)>>,
    <<500, <<"{", Q>> \o Kerror \o <<Q, ":", Q, "n", "o", Q, "}">> >>,
    <<500, <<"{", Q>> \o Kerror \o <<Q, ":", "n", "u", "l", "l", "}">> >>,
    <<500, <<"n", "o">> >> }

\* the response snapshots: a JSON body, a long text body, a short and a
\* long error message, and the error cases
StoreResponses ==
  { CachedResponseOf(r, r.body, 0) :
      r \in { TransportResponse(200, StatusOK, JsonHeader, <<"{", Q, "a", Q, ":", "1", "}">>),
              TransportResponse(200, StatusOK, <<>>, LongString),
              TransportResponse(500, <<"I", "S", "E">>, JsonHeader,
                <<"{", Q>> \o Kerror \o <<Q, ":", "{", Q>> \o Kmessage
                  \o <<Q, ":", Q, "n", "o", Q, "}", "}">>),
              TransportResponse(500, <<"I", "S", "E">>, JsonHeader,
                <<"{", Q>> \o Kerror \o <<Q, ":", "{", Q>> \o Kmessage
                  \o <<Q, ":", Q>> \o LongString \o <<Q, "}", "}">>) }
           \cup { TransportResponse(st[1], <<>>, <<>>, st[2]) : st \in ErrorCases } }

StoreInit ==
  /\ WrapperAtRest
  /\ lab = [op |-> "store", n |-> 0, f |-> EmptyFs, body |-> Null, response |-> Null]

\* cacheResponse(url, requestBody, response, stackInfo)
Store(body, response) ==
  /\ lab.n < MaxStores
  /\ lab' = [lab EXCEPT !.n = @ + 1, !.body = body, !.response = response,
                        !.f = cacheResponse(lab.f, Url1, body, response,
                                            getStackTrace(<<CacheLine, UserLine>>))]
  /\ UNCHANGED wrapperVars

StoreNext == \E body \in StoreBodies, response \in StoreResponses : Store(body, response)

StoreSpec == StoreInit /\ [][StoreNext]_vars

(***************************************************************************)
(* The wrapper called for one request on a disk whose writes can fail: a   *)
(* store stops at the first mkdirSync or writeFileSync that throws         *)
(***************************************************************************)
\* the calls of cacheResponse that touch the disk, in order; "none" is a
\* store in which none of them throws
FailPoints == <<"folder", "meta", "sidecarDir", "request", "sidecar", "response">>

\* the i-th step of cacheResponse: mkdir of the folder, meta.json, mkdir of
\* the sidecar directory, request.json, response.json
StoreStep(f, i, key, url, requestBody, response, stackInfo) ==
  CASE i = 1 -> EnsureFolder(f, key)
    [] i = 2 -> WriteMeta(f, key, BuildMeta(key, url, requestBody, response, stackInfo))
    [] i = 3 -> EnsureSidecarDir(f)
    [] i = 4 -> WriteRequest(f, key, requestBody)
    [] OTHER -> WriteResponse(f, key, response)

\* steps i..n in order: [prev, cur], the disk before and after step n
RECURSIVE StoreSteps(_, _, _, _, _, _, _, _, _)
StoreSteps(prev, cur, i, n, key, url, requestBody, response, stackInfo) ==
  IF i > n THEN [prev |-> prev, cur |-> cur]
  ELSE CHOOSE at \in { StoreSteps(cur, next, i + 1, n, key, url, requestBody, response,
                                  stackInfo) :
                         next \in {StoreStep(cur, i, key, url, requestBody, response,
                                             stackInfo)} } : TRUE

\* the step in which the call at failAt is made
StepOf(failAt) ==
  CASE failAt = "folder" -> 1
    [] failAt = "meta" -> 2
    [] failAt = "sidecarDir" -> 3
    [] failAt = "request" -> 4
    [] OTHER -> 5

\* what the throw at failAt leaves of the step it interrupts: prev is the
\* disk before that step, cur the disk had the step completed
CutAt(prev, cur, key, failAt, torn) ==
  CASE failAt = "none" -> cur
    [] failAt = "meta" ->
         [prev EXCEPT !.meta = IF torn THEN WriteFile(@, key, Garbage) ELSE @]
    [] failAt = "request" ->
         [prev EXCEPT !.sidecarDir = cur.sidecarDir,
                      !.request = IF torn THEN WriteFile(@, key, Garbage) ELSE @]
    [] failAt = "response" ->
         [prev EXCEPT !.sidecarDir = cur.sidecarDir,
                      !.response = IF torn THEN WriteFile(@, key, Garbage) ELSE @]
    [] OTHER -> prev

\* The disk a store leaves when the call at failAt throws.  A writeFileSync
\* that throws leaves its file as it was or, if torn, holding a text that
\* does not parse.  In JsonSidecar.writeFile the sidecar files are written
\* before the main file: "sidecar" is a throw at the first sidecar of the
\* response, "request" and "response" a throw at the main file.
cacheResponseUpTo(f, url, requestBody, response, stackInfo, failAt, torn) ==
  LET key == getCacheKey(url, requestBody)
  IN CHOOSE left \in { CutAt(at.prev, at.cur, key, failAt, torn) :
                        at \in {StoreSteps(f, f, 1, StepOf(failAt), key, url, requestBody,
                                           response, stackInfo)} } : TRUE

\* whether the call at failAt is made at all by this store
Reaches(f, url, requestBody, response, failAt) ==
  CASE failAt = "folder" -> getCacheKey(url, requestBody) \notin f.folders
    [] failAt = "sidecarDir" -> ~f.sidecarDir.exists
    [] failAt = "sidecar" -> CollectSidecars(response, DEFAULT_THRESHOLD, <<>>) # <<>>
    [] OTHER -> TRUE

\* the error of the store swallowed: the response is returned all the same
StoreOutcomeSwallowed(returned, failAt) ==
  [kind |-> "response", resp |-> returned, err |-> "none"]

\* cacheResponse is called outside any try block: what it throws rejects
\* the wrapper's promise, otherwise the new Response is returned
StoreOutcome(returned, failAt) ==
  IF failAt = "none" THEN [kind |-> "response", resp |-> returned, err |-> "none"]
  ELSE [kind |-> "error", resp |-> NoResp, err |-> "write"]

FaultResponses ==
  { TransportResponse(200, <<"O", "K">>, <<>>, <<"{", Q, "a", Q, ":", "1", "}">>),
    TransportResponse(200, <<"O", "K">>, <<>>, <<Q>> \o LongString \o <<Q>>),
    TransportResponse(500, <<"I", "S", "E">>, <<>>, <<"n", "o">>) }

\* <<failAt, torn>>: only a writeFileSync can leave a torn file
Faults ==
  {<<"none", FALSE>>}
  \cup {<<FailPoints[i], FALSE>> : i \in 1..Len(FailPoints)}
  \cup {<<failAt, TRUE>> : failAt \in {"meta", "request", "response"}}

\* lab records the disk call that threw in the latest store, and the call
\* that made the store
FaultInit ==
  /\ enabled = TRUE
  /\ ttlMs = 1
  /\ now = 0
  /\ fs = EmptyFs
  /\ calls = [c \in Calls |-> Idle]
  /\ event = Idle
  /\ invocations = 0
  /\ transportCalls = 0
  /\ captured = <<>>
  /\ lab = [op |-> "fault", failAt |-> "none", torn |-> FALSE, seq |-> 0]

\* `await clone.text()` resumes with the body text: parse, store (which may
\* throw at failAt), return.
ReadResolveOrThrow(c, failAt, torn) ==
  /\ calls[c].pc = "read"
  /\ LET resp == calls[c].upstream
         source == BodySource(resp)
         bodyText == source.body
         response == CachedResponseOf(resp, bodyText, now)
         returned == MissResponse(resp, bodyText)
     IN /\ Reaches(fs, calls[c].url, calls[c].requestBody, response, failAt)
        /\ fs' = cacheResponseUpTo(fs, calls[c].url, calls[c].requestBody, response,
                                   StackInfoAtStore(calls[c].stackInfo, ResumedStack),
                                   failAt, torn)
        /\ event' = [calls[c] EXCEPT !.pc = "done", !.stored = response,
                      !.upstream = AfterText(resp, source),
                      !.result = StoreOutcome(returned, failAt)]
        /\ captured' = IF failAt # "none" THEN captured
                       ELSE WriteFile(captured, <<calls[c].url, calls[c].requestBody>>,
                                      [timestamp |-> now, resp |-> returned, upstream |-> resp,
                                       bodyText |-> calls[c].body.text])
  /\ lab' = [lab EXCEPT !.failAt = failAt, !.torn = torn, !.seq = calls[c].seq]
  /\ calls' = [calls EXCEPT ![c] = Idle]
  /\ UNCHANGED <<enabled, ttlMs, now, invocations, transportCalls>>

FaultNext ==
  \/ \E c \in Calls, stack \in Stacks :
       Invoke(c, <<"u">>, "POST", BodyOf(<<"1">>), stack)
  \/ \E c \in Calls, resp \in FaultResponses : FetchResolve(c, resp)
  \/ \E c \in Calls, fault \in Faults : ReadResolveOrThrow(c, fault[1], fault[2])
  \/ Tick

FaultSpec == FaultInit /\ [][FaultNext]_vars

(***************************************************************************)
(* Two writers (processes) encode into one sidecar directory at the same   *)
(* time: each call of writeFileSync is a step of its own                   *)
(***************************************************************************)
Writers == {1, 2}
RaceThreshold == 2
\* values that share the long string abc, as a plain string and as the
\* payload of a data URL
RaceValues ==
  { Str(Sabc),
    Arr(<<Str(Sabc), Str(Sabcd)>>),
    Arr(<<Str(Sabcd), Str(<<"a", "b">>), Str(Sabc)>>),
    Obj(<< <<<<"k">>, Str(DataUrl(<<"t", "/", "p">>, Sabc))>>, <<<<"n">>, Num(1)>> >>) }

NoWriter == [phase |-> "idle", value |-> Null, doc |-> Null, pending |-> <<>>, written |-> Null]

RaceInit ==
  /\ WrapperAtRest
  /\ lab = [op |-> "race", dir |-> NoDir, writers |-> [w \in Writers |-> NoWriter]]

\* stringify up to its write loop: the directory is made, JSON.stringify
\* runs the replacer and fills the sidecars Map
BeginEncode(w, value) ==
  /\ lab.writers[w].phase = "idle"
  /\ lab' = [lab EXCEPT !.dir.exists = TRUE,
                        !.writers[w] = [phase |-> "writing", value |-> value,
                                        doc |-> EncodeDoc(value, RaceThreshold),
                                        pending |-> CollectSidecars(value, RaceThreshold, <<>>),
                                        written |-> Null]]
  /\ UNCHANGED wrapperVars

\* one turn of the write loop: writeFileSync(sidecarPath, content)
WriteSidecar(w) ==
  /\ lab.writers[w].phase = "writing"
  /\ lab.writers[w].pending # <<>>
  /\ lab' = [lab EXCEPT !.dir = WriteInDir(@, lab.writers[w].pending[1][1],
                                           lab.writers[w].pending[1][2]),
                        !.writers[w].pending = Tail(@)]
  /\ UNCHANGED wrapperVars

\* the loop is over: stringify returns and writeFile writes the main file
WriteMain(w) ==
  /\ lab.writers[w].phase = "writing"
  /\ lab.writers[w].pending = <<>>
  /\ lab' = [lab EXCEPT !.writers[w].phase = "done", !.writers[w].written = lab.writers[w].doc]
  /\ UNCHANGED wrapperVars

RaceNext ==
  \/ \E w \in Writers, value \in RaceValues : BeginEncode(w, value)
  \/ \E w \in Writers : WriteSidecar(w)
  \/ \E w \in Writers : WriteMain(w)

RaceSpec == RaceInit /\ [][RaceNext]_vars

(***************************************************************************)
(* The wrapper called for requests that differ in the url or in the kind   *)
(* of the JSON body: a number, a string, an array, an object               *)
(***************************************************************************)
\* <<url, init.body>>
MixedRequests ==
  { << <<"u">>, <<"1", "2">> >>,
    << <<"u", "1">>, <<"2">> >>,
    << <<"u">>, <<Q, "a", Q>> >>,
    << <<"u">>, <<"[", "1", "]">> >>,
    << <<"u">>, <<"{", Q, "0", Q, ":", "1", "}">> >> }
MixedResponses ==
  { TransportResponse(200, <<"O", "K">>, <<>>, <<"1">>),
    TransportResponse(200, <<"O", "K">>, <<>>, <<"2">>) }

MixedNext ==
  \/ \E c \in Calls, r \in MixedRequests, stack \in Stacks :
       Invoke(c, r[1], "POST", BodyOf(r[2]), stack)
  \/ \E c \in Calls, resp \in MixedResponses : FetchResolve(c, resp)
  \/ \E c \in Calls : ReadResolve(c)
  \/ Tick

MixedInit == WrapperAtRest /\ lab = NoLab

MixedSpec == MixedInit /\ [][MixedNext]_vars

(***************************************************************************)
(* truncateForLog called directly on one value                             *)
(***************************************************************************)
LogEllipsis == <<".", ".", ".", " ", "[">>
LogChars == <<" ", "c", "h", "a", "r", "s", "]">>

\* truncateForLog(obj, maxLen)
RECURSIVE truncateForLog(_, _)
RECURSIVE TruncateItems(_, _, _)
RECURSIVE TruncateEntries(_, _, _, _)
\* obj.map((item) => truncateForLog(item, maxLen))
TruncateItems(a, i, maxLen) ==
  IF i > Len(a) THEN <<>>
  ELSE <<truncateForLog(a[i], maxLen)>> \o TruncateItems(a, i + 1, maxLen)
\* for (const [key, value] of Object.entries(obj)) result[key] = ...
TruncateEntries(entries, i, maxLen, result) ==
  IF i > Len(entries) THEN result
  ELSE TruncateEntries(entries, i + 1, maxLen,
         AssignProperty(result, entries[i][1], truncateForLog(entries[i][2], maxLen)))
truncateForLog(obj, maxLen) ==
  CASE obj.k = "str" ->
         IF Len(obj.v) > maxLen
         THEN Str(Take(obj.v, maxLen) \o LogEllipsis \o Digits(Len(obj.v)) \o LogChars)
         ELSE obj
    [] obj.k = "arr" -> Arr(TruncateItems(obj.v, 1, maxLen))
    [] obj.k = "obj" -> Obj(TruncateEntries(Entries(obj), 1, maxLen, <<>>))
    [] OTHER -> obj

LogValues ==
  { Undef, Null, Bool(TRUE), Bool(FALSE), Num(0), Num(123),
    Str(<<>>), Str(<<"a", "b">>), Str(<<"a", "b", "c">>), Str(Sabcd),
    Arr(<<>>), Arr(<<Str(Sabcd), Num(1), Str(<<"a", "b">>), Null>>),
    Arr(<<Arr(<<Str(Sabcd)>>), Obj(<< <<<<"k">>, Str(Sabcd)>> >>)>>),
    Obj(<<>>),
    Obj(<< <<<<"b">>, Str(Sabcd)>>, <<<<"a">>, Obj(<< <<<<"c">>, Str(<<"a", "b", "c">>)>> >>)>> >>),
    Obj(<< <<<<"a">>, Arr(<<Str(Sabcd), Bool(TRUE)>>)>>, <<<<"n">>, Num(1)>> >>),
    Obj(<< <<ProtoKey, Str(Sabcd)>>, <<<<"a">>, Str(<<"a", "b">>)>> >>) }
\* 100 is the default of the parameter
LogMaxLens == {0, 2, 3, 4, 100}

TruncInit ==
  /\ WrapperAtRest
  /\ \E value \in LogValues, maxLen \in LogMaxLens :
       lab = [op |-> "truncate", value |-> value, maxLen |-> maxLen,
              done |-> FALSE, result |-> Undef]

Truncate ==
  /\ ~lab.done
  /\ lab' = [lab EXCEPT !.done = TRUE, !.result = truncateForLog(lab.value, lab.maxLen)]
  /\ UNCHANGED wrapperVars

TruncNext == Truncate

TruncSpec == TruncInit /\ [][TruncNext]_vars

(***************************************************************************)
(* The wrapper called for one request from several call stacks, the        *)
(* transport answering with bodies that are JSON primitives, not JSON, or  *)
(* empty                                                                   *)
(***************************************************************************)
SnapshotBodies ==
  { <<"n", "u", "l", "l">>, <<"f", "a", "l", "s", "e">>, <<"0">>, <<Q, Q>>,
    <<>>, <<"h", "i">>, <<"{", Q, "a", Q, ":", "1", "}">> }
SnapshotResponses ==
  { TransportResponse(200, <<"O", "K">>, <<>>, body) : body \in SnapshotBodies }

SnapshotInit ==
  /\ enabled = TRUE
  /\ ttlMs = 1
  /\ now = 0
  /\ fs = EmptyFs
  /\ calls = [c \in Calls |-> Idle]
  /\ event = Idle
  /\ invocations = 0
  /\ transportCalls = 0
  /\ captured = <<>>
  /\ lab = NoLab

SnapshotNext ==
  \/ \E c \in Calls, stack \in CallStacks :
       Invoke(c, <<"u">>, "POST", BodyOf(<<"1">>), stack)
  \/ \E c \in Calls, resp \in SnapshotResponses : FetchResolve(c, resp)
  \/ \E c \in Calls : ReadResolve(c)
  \/ Tick

SnapshotSpec == SnapshotInit /\ [][SnapshotNext]_vars

(***************************************************************************)
(* The wrapper started over a cache directory that already holds an entry  *)
(* for the request, left by an earlier run, with a transport that can fail *)
(***************************************************************************)
RefreshUrl == <<"u">>
RefreshBody == BodyOf(<<"1">>)
RefreshResponses ==
  { TransportResponse(200, <<"O", "K">>, <<>>, <<"{", Q, "a", Q, ":", "1", "}">>),
    TransportResponse(500, <<"E">>, <<>>, <<"n", "o">>) }

\* the entry an earlier run stored at time 0
EarlierEntry(resp) ==
  cacheResponse(EmptyFs, RefreshUrl, JSONparse(RefreshBody.text).val,
                CachedResponseOf(resp, resp.body, 0),
                getStackTrace(<<CacheLine, UserLine>>))

RefreshInit ==
  /\ enabled = TRUE
  /\ ttlMs \in {1, 2}
  /\ now = 1
  /\ \E resp \in RefreshResponses : fs = EarlierEntry(resp)
  /\ calls = [c \in Calls |-> Idle]
  /\ event = Idle
  /\ invocations = 0
  /\ transportCalls = 0
  /\ captured = <<>>
  /\ lab = NoLab

RefreshNext ==
  \/ \E c \in Calls, stack \in Stacks : Invoke(c, RefreshUrl, "POST", RefreshBody, stack)
  \/ \E c \in Calls, resp \in RefreshResponses : FetchResolve(c, resp)
  \/ \E c \in Calls : FetchReject(c)
  \/ \E c \in Calls : ReadResolve(c)
  \/ \E c \in Calls : ReadReject(c)
  \/ Tick

RefreshSpec == RefreshInit /\ [][RefreshNext]_vars

(***************************************************************************)
(* Properties                                                              *)
(***************************************************************************)
\* the latest step invoked the wrapper call in event (a hit settles in the
\* invoking step itself)
JustInvoked == event.pc \in {"fetch", "pass"} \/ (event.pc = "done" /\ event.path = "hit")

\* the latest step settled the wrapper call in event with a response
Returned == event.pc = "done" /\ event.result.kind = "response"

\* the latest step settled the wrapper call in event with an error
Threw == event.pc = "done" /\ event.result.kind = "error"

\* a call the spec has cached: caching enabled, POST, JSON-parseable body
CacheableCall(r) ==
  enabled /\ r.method = "POST" /\ r.body.present /\ JSONparse(r.body.text).ok

\* the request identity and the entry key of a cacheable call
RequestOf(r) == <<r.url, JSONparse(r.body.text).val>>
KeyOf(r) == getCacheKey(r.url, JSONparse(r.body.text).val)

\* the files of the entry under a key
HasEntryFiles(key) ==
  /\ key \in fs.folders
  /\ key \in DOMAIN fs.meta
  /\ key \in DOMAIN fs.request
  /\ key \in DOMAIN fs.response
StoredTimestamp(key) == Get(fs.response[key], Ktimestamp).v

\* two responses agree on what a caller can observe
SameResponse(a, b) ==
  /\ a.status = b.status
  /\ a.statusText = b.statusText
  /\ a.headers = b.headers
  /\ a.body = b.body

\* C1: a call whose request was captured by a completed miss and whose
\* capture is younger than ttlMs is answered from the cache in the invoking
\* step, and the transport is not invoked for it.
C1_FreshRepeatIsServedFromCache ==
  (/\ JustInvoked
   /\ CacheableCall(event)
   /\ RequestOf(event) \in DOMAIN captured
   /\ now - captured[RequestOf(event)].timestamp < ttlMs)
  => (event.path = "hit" /\ event.fetched = 0 /\ Returned)

C1_Witness ==
  /\ event.path = "hit"
  /\ RequestOf(event) \in DOMAIN captured
  /\ invocations = 2
  /\ transportCalls = 1

\* C2: the response synthesized on a hit has the status, status text,
\* headers and body text of the response the capturing call returned.
C2_HitEqualsLiveResponse ==
  (event.path = "hit" /\ RequestOf(event) \in DOMAIN captured)
  => SameResponse(event.result.resp, captured[RequestOf(event)].resp)

\* C3: after a store, lookup of the same (url, body) returns the response
\* snapshot that was stored, with no reference placeholder left in it.
C3_StoreLookupRoundTrip ==
  (Returned /\ event.path \in {"miss", "stale"})
  => LET got == getCachedResponse(fs, event.url, event.requestBody)
     IN got.found /\ got.response = event.stored /\ ~hasUnresolvedRefs(got.response)

\* C4: a cacheable call with no entry under its key goes to the transport
\* once; when it returns, the key's folder holds meta.json, request.json and
\* response.json, and meta.success is true exactly for 200 <= status < 300.
C4_MissFetchesOnceAndStores ==
  /\ (JustInvoked /\ CacheableCall(event) /\ KeyOf(event) \notin fs.folders)
     => (event.path = "miss" /\ event.pc = "fetch" /\ event.fetched = 1)
  /\ (Returned /\ event.path = "miss")
     => /\ event.fetched = 1
        /\ HasEntryFiles(KeyOf(event))
        /\ Get(fs.meta[KeyOf(event)], Ksuccess)
             = Bool(200 <= event.upstream.status /\ event.upstream.status < 300)

C4_Witness ==
  /\ Returned /\ event.path = "miss"
  /\ event.upstream.status = 300
  /\ Get(fs.meta[KeyOf(event)], Ksuccess) = Bool(FALSE)

\* C5: a cacheable call whose entry is at least ttlMs old goes to the
\* transport; when it returns, the entry carries the new capture time and
\* the new response, newer than the stale entry the call found, and is
\* fresh again for any positive ttlMs.
C5_StaleEntryIsRefreshed ==
  /\ (/\ JustInvoked /\ CacheableCall(event)
      /\ HasEntryFiles(KeyOf(event))
      /\ now - StoredTimestamp(KeyOf(event)) >= ttlMs)
     => (event.path = "stale" /\ event.pc = "fetch" /\ event.fetched = 1)
  /\ (Returned /\ event.path = "stale")
     => /\ HasEntryFiles(KeyOf(event))
        /\ StoredTimestamp(KeyOf(event)) = now
        /\ Get(fs.meta[KeyOf(event)], Ktimestamp) = Num(now)
        /\ Get(fs.response[KeyOf(event)], Kstatus) = Num(event.upstream.status)
        /\ Get(fs.meta[KeyOf(event)], Kstatus) = Num(event.upstream.status)
        /\ StoredTimestamp(KeyOf(event)) >= event.cachedTimestamp
        /\ (ttlMs > 0 => /\ StoredTimestamp(KeyOf(event)) > event.cachedTimestamp
                         /\ now - StoredTimestamp(KeyOf(event)) < ttlMs)

C5_Witness ==
  /\ Returned /\ event.path = "stale"
  /\ ttlMs > 0
  /\ event.cachedTimestamp = 0
  /\ StoredTimestamp(KeyOf(event)) = now
  /\ event.upstream.status = 500

\* C6: a cacheable call is served from the cache exactly when its entry
\* exists and now - storedTimestamp < ttlMs; at age = ttlMs it is not, and
\* with ttlMs = 0 never.
C6_FreshnessIsStrict ==
  (JustInvoked /\ CacheableCall(event))
  => /\ event.path = "hit"
          <=> (/\ HasEntryFiles(KeyOf(event))
               /\ now - StoredTimestamp(KeyOf(event)) < ttlMs)
     /\ (ttlMs = 0 => event.path # "hit")
     /\ event.path # "hit" => event.fetched = 1

C6_Witness ==
  /\ JustInvoked /\ CacheableCall(event)
  /\ HasEntryFiles(KeyOf(event))
  /\ ttlMs > 0
  /\ now - StoredTimestamp(KeyOf(event)) = ttlMs
  /\ event.path = "stale"

\* a call the spec passes through: caching disabled, method not POST, or no
\* body
BypassedCall(r) == ~enabled \/ r.method # "POST" \/ ~r.body.present

\* C7: a call with caching disabled, a method other than POST or no body
\* goes to the transport once with its own arguments, resolves with the
\* transport's response object itself, and no step of it changes the cache.
C7_PassThroughLeavesCacheAlone ==
  /\ []((JustInvoked /\ BypassedCall(event))
        => /\ event.path = "pass" /\ event.fetched = 1
           /\ event.sent = [url |-> event.url, method |-> event.method, body |-> event.body])
  /\ []((Returned /\ BypassedCall(event))
        => /\ event.result.resp = event.upstream
           /\ event.result.resp.origin = "transport"
           /\ event.fetched = 1)
  /\ [][(event'.seq # 0 /\ BypassedCall(event')) => fs' = fs]_vars

C7_Witness ==
  /\ Returned /\ BypassedCall(event)
  /\ enabled
  /\ event.method = "GET"
  /\ fs.folders # {}

\* a POST call with a body that is present and does not parse as JSON
NonJsonCall(r) ==
  r.method = "POST" /\ r.body.present /\ r.body.text # <<>> /\ ~JSONparse(r.body.text).ok

\* C8: a POST call whose body does not parse as JSON goes to the transport
\* once, resolves with the transport's response object itself, creates no
\* cache folder, and fails only when the transport fails.
C8_NonJsonBodyPassesThrough ==
  /\ []((JustInvoked /\ NonJsonCall(event))
        => (event.path = "pass" /\ event.fetched = 1))
  /\ []((Returned /\ NonJsonCall(event))
        => (event.result.resp = event.upstream /\ event.fetched = 1))
  /\ []((Threw /\ NonJsonCall(event)) => event.result.err = "transport")
  /\ [][(event'.seq # 0 /\ NonJsonCall(event')) => fs' = fs]_vars

C8_Witness ==
  /\ Returned /\ NonJsonCall(event)
  /\ enabled
  /\ fs.folders # {}

\* C9: when the transport call or the read of its body fails on the
\* miss/stale path, the wrapper call fails with that failure; only a call
\* that returns a response on that path changes a cache file, so a failed
\* call leaves every file as it was and the next identical call, finding no
\* fresh entry, goes to the transport.
C9_FailureIsNotCached ==
  /\ []((Threw /\ event.path \in {"miss", "stale"})
        => event.result.err \in {"transport", "body"})
  /\ [][(event'.pc = "done" /\ event'.result.kind = "error")
        => (fs' = fs /\ captured' = captured)]_vars
  /\ [][fs' # fs => (/\ event'.pc = "done" /\ event'.result.kind = "response"
                      /\ event'.path \in {"miss", "stale"})]_vars
  /\ []((JustInvoked /\ CacheableCall(event)
         /\ ~(/\ HasEntryFiles(KeyOf(event))
              /\ now - StoredTimestamp(KeyOf(event)) < ttlMs))
        => event.fetched = 1)

C9_Witness ==
  /\ Threw /\ event.path = "stale"
  /\ event.result.err = "body"
  /\ HasEntryFiles(KeyOf(event))

\* the response snapshot the spec expects store to record for a transport
\* response captured at a given time
ExpectedSnapshot(resp, timestamp) ==
  Obj(<< <<Kstatus, Num(resp.status)>>,
         <<KstatusText, Str(resp.statusText)>>,
         <<Kheaders, Obj([i \in 1..Len(resp.headers) |->
                            <<resp.headers[i][1], Str(resp.headers[i][2])>>])>>,
         <<Kbody, IF JSONparse(resp.body).ok
                  THEN Obj(<< <<Kjson, JSONparse(resp.body).val>> >>)
                  ELSE Obj(<< <<Ktext, Str(resp.body)>> >>)>>,
         <<Ktimestamp, Num(timestamp)>> >>)

C11_KeySensitive ==
  (lab.done /\ lab.a # lab.b) => (lab.keyA # lab.keyB /\ lab.keyA0 # lab.keyB0)

\* C12: the key of a request is the same whenever it is derived: for every
\* request a call has stored, the key derived now names the folder that
\* store wrote, meta.json there records that very key, and lookup finds the
\* entry, whatever calls, stores and clock ticks came in between.
C12_KeyIsStateIndependent ==
  \A r \in DOMAIN captured :
    LET key == getCacheKey(r[1], r[2])
    IN /\ HasEntryFiles(key)
       /\ Get(fs.meta[key], Kkey) = Str(key)
       /\ getCachedResponse(fs, r[1], r[2]).found

\* two requests were stored, the second after the clock moved
C12_Witness ==
  /\ Cardinality(DOMAIN captured) = 2
  /\ now > 0
  /\ Returned

\* a stored request with the url of call r whose body text differs from
\* r's but parses to the same JSON value
SameValueOtherText(r) ==
  {q \in DOMAIN captured :
     /\ q[1] = r.url
     /\ captured[q].bodyText # r.body.text
     /\ JSONparse(captured[q].bodyText).val = JSONparse(r.body.text).val}

\* C13: a call whose body text differs from that of a stored request only
\* in insignificant whitespace derives the key of that entry and, while the
\* entry is fresh, is served from it without a transport call.
C13_WhitespaceIsIgnored ==
  (JustInvoked /\ CacheableCall(event))
  => \A q \in SameValueOtherText(event) :
       /\ KeyOf(event) = getCacheKey(q[1], JSONparse(captured[q].bodyText).val)
       /\ now - captured[q].timestamp < ttlMs
          => (event.path = "hit" /\ event.fetched = 0 /\ Returned)

\* a hit on an entry stored by a call with a differently spaced body
C13_Witness ==
  /\ event.path = "hit"
  /\ SameValueOtherText(event) # {}
  /\ transportCalls = 1

\* C14: decoding an encoded value with the sidecar directory the encode
\* left gives the value back.
C14_CodecRoundTrip ==
  (lab.phase = "decoded" /\ lab.removed = {}) => lab.decoded = lab.value

\* the ways to read a string as data:<media-type>;base64,<payload>
DataUrlParts(s) ==
  {p \in CodecMediaTypes \X CodecPayloads : s = DataUrl(p[1], p[2])}

\* C15: encoding data:<media-type>;base64,X with X longer than the
\* threshold gives the prefix followed by the reference to hash(X), writes
\* X alone into the sidecar named by hash(X), and decoding restores the
\* string.
C15_DataUrlKeepsPrefix ==
  (lab.phase = "encoded" /\ lab.removed = {} /\ lab.value.k = "str")
  => \A p \in DataUrlParts(lab.value.v) :
       Len(p[2]) > lab.threshold
       => /\ lab.doc = Str(DataScheme \o p[1] \o Base64Tag \o makeSidecarRef(hashValue(p[2])))
          /\ (hashValue(p[2]) \o SidecarSuffix) \in DOMAIN lab.dir.files
          /\ lab.dir.files[hashValue(p[2]) \o SidecarSuffix] = p[2]
          /\ parse(lab.doc, lab.dir) = lab.value

\* the string leaves of a value that are longer than the threshold
RECURSIVE LongLeaves(_, _)
LongLeaves(x, t) ==
  CASE x.k = "str" -> IF Len(x.v) > t THEN {x.v} ELSE {}
    [] x.k = "arr" -> UNION {LongLeaves(x.v[i], t) : i \in 1..Len(x.v)}
    [] x.k = "obj" -> UNION {LongLeaves(x.v[i][2], t) : i \in 1..Len(x.v)}
    [] OTHER -> {}

\* s ends with the non-empty text tail
EndsWith(s, tail) ==
  /\ tail # <<>>
  /\ Len(tail) <= Len(s)
  /\ SubSeq(s, Len(s) - Len(tail) + 1, Len(s)) = tail

\* document d is value x with exactly the strings longer than t replaced
\* by placeholders whose content is in a file of dir: arrays keep their
\* length, objects their keys, every other value is left as it is
RECURSIVE EncodedAtThreshold(_, _, _, _)
EncodedAtThreshold(x, d, t, dir) ==
  CASE x.k = "str" ->
         IF Len(x.v) <= t THEN d = x
         ELSE /\ d.k = "str"
              /\ d # x
              /\ hasSidecarRef(d.v)
              /\ \E name \in DOMAIN dir.files : EndsWith(x.v, dir.files[name])
    [] x.k = "arr" ->
         /\ d.k = "arr"
         /\ Len(d.v) = Len(x.v)
         /\ \A i \in 1..Len(x.v) : EncodedAtThreshold(x.v[i], d.v[i], t, dir)
    [] x.k = "obj" ->
         /\ d.k = "obj"
         /\ Len(d.v) = Len(x.v)
         /\ \A i \in 1..Len(x.v) :
              /\ d.v[i][1] = x.v[i][1]
              /\ EncodedAtThreshold(x.v[i][2], d.v[i][2], t, dir)
    [] OTHER -> d = x

\* C16: an encode leaves every string of length <= threshold inline, at
\* any depth and under any key, replaces every longer string by a
\* placeholder with a sidecar, leaves non-strings and object keys alone,
\* and creates sidecars for the longer strings only.
C16_ThresholdIsStrict ==
  (lab.phase = "encoded" /\ lab.removed = {})
  => /\ EncodedAtThreshold(lab.value, lab.doc, lab.threshold, lab.dir)
     /\ \A name \in DOMAIN lab.dir.files \ DOMAIN lab.before.files :
          \E s \in LongLeaves(lab.value, lab.threshold) : EndsWith(s, lab.dir.files[name])
     /\ LongLeaves(lab.value, lab.threshold) = {} => lab.dir.files = lab.before.files

\* a nested value with a string of length threshold, a string of length
\* threshold + 1, a number and a key longer than the threshold was encoded
C16_Witness ==
  /\ lab.phase = "encoded"
  /\ lab.value.k = "obj"
  /\ lab.threshold = Len(Sab)
  /\ lab.doc # lab.value
  /\ Cardinality(DOMAIN lab.dir.files) = 2

\* the contents the sidecar files hold
SidecarContents(dir) == {dir.files[name] : name \in DOMAIN dir.files}

\* C17: the sidecar directory holds one file per distinct content, however
\* many encodes wrote into it.
C17_OneSidecarPerContent ==
  Cardinality(DOMAIN lab.dir.files) = Cardinality(SidecarContents(lab.dir))

\* string s of a document is a reference to the sidecar file name
RefersTo(s, name) ==
  extractSidecarHash(s).found /\ extractSidecarHash(s).hash \o SidecarSuffix = name

\* document d has a reference to the sidecar file name
RECURSIVE DocRefersTo(_, _)
DocRefersTo(d, name) ==
  CASE d.k = "str" -> RefersTo(d.v, name)
    [] d.k = "arr" -> \E i \in 1..Len(d.v) : DocRefersTo(d.v[i], name)
    [] d.k = "obj" -> \E i \in 1..Len(d.v) : DocRefersTo(d.v[i][2], name)
    [] OTHER -> FALSE

\* got is document d decoded with file name missing: a reference to name
\* is left as it stands in d, everything else is as in full, the decode
\* with no file missing
RECURSIVE DecodedWithMissing(_, _, _, _)
DecodedWithMissing(d, got, full, name) ==
  CASE d.k = "str" -> IF RefersTo(d.v, name) THEN got = d ELSE got = full
    [] d.k = "arr" ->
         /\ got.k = "arr"
         /\ Len(got.v) = Len(d.v)
         /\ \A i \in 1..Len(d.v) : DecodedWithMissing(d.v[i], got.v[i], full.v[i], name)
    [] d.k = "obj" ->
         /\ got.k = "obj"
         /\ Len(got.v) = Len(d.v)
         /\ \A i \in 1..Len(d.v) :
              /\ got.v[i][1] = d.v[i][1]
              /\ DecodedWithMissing(d.v[i][2], got.v[i][2], full.v[i][2], name)
    [] OTHER -> got = d

\* C18: a decode with a sidecar file missing returns every reference to
\* that file as the placeholder of the document, decodes everything else
\* as it would with the file present, and hasUnresolvedRefs holds of the
\* result when the document refers to the missing file.
C18_MissingSidecarIsTolerated ==
  (lab.phase = "decoded" /\ lab.removed # {})
  => LET full == parse(lab.doc, stringify(lab.value, lab.before, lab.threshold).dir)
     IN \A name \in lab.removed :
          /\ DecodedWithMissing(lab.doc, lab.decoded, full, name)
          /\ DocRefersTo(lab.doc, name) => hasUnresolvedRefs(lab.decoded)

\* a document with two references was decoded with the sidecar of one of
\* them missing: one placeholder is left, the other reference is restored
C18_Witness ==
  /\ lab.phase = "decoded"
  /\ \E name \in lab.removed : DocRefersTo(lab.doc, name)
  /\ hasUnresolvedRefs(lab.decoded)
  /\ lab.decoded # lab.doc
  /\ lab.decoded # lab.value
  /\ lab.value.k = "obj"

\* the entry under key lacks meta.json or response.json, or one of the two
\* does not parse
Damaged(key) ==
  \/ key \notin DOMAIN fs.meta
  \/ key \notin DOMAIN fs.response
  \/ fs.meta[key] = Garbage
  \/ fs.response[key] = Garbage

\* C19: lookup reports a damaged entry absent; a cacheable call that meets
\* one takes the miss path and calls the transport, and when it returns
\* the entry is whole again and lookup finds it.
C19_DamagedEntryIsAMiss ==
  /\ Damaged(DamagedKey)
     => ~getCachedResponse(fs, Url1, JSONparse(ReqObject).val).found
  /\ (JustInvoked /\ CacheableCall(event) /\ Damaged(KeyOf(event)))
     => (event.path = "miss" /\ event.pc = "fetch" /\ event.fetched = 1)
  /\ (Returned /\ event.path \in {"miss", "stale"})
     => /\ HasEntryFiles(KeyOf(event))
        /\ ~Damaged(KeyOf(event))
        /\ getCachedResponse(fs, event.url, event.requestBody).found

\* the second call met the damaged entry of the first, went to the
\* transport and returned
C19_Witness ==
  /\ Returned
  /\ event.path = "miss"
  /\ KeyOf(event) = DamagedKey
  /\ invocations = 2
  /\ transportCalls = 2
  /\ captured[RequestOf(event)].timestamp = 0

\* C20: no field of a meta.json that a store writes holds a string longer
\* than the size above which the codec treats a string as large.  (The
\* key field is left out: it is 16 hex characters, which the model
\* represents by the digest's input.)
C20_MetaStaysSmall ==
  \A key \in DOMAIN lab.f.meta :
    \A i \in 1..Len(lab.f.meta[key].v) :
      lab.f.meta[key].v[i][1] # Kkey
      => LongLeaves(lab.f.meta[key].v[i][2], DEFAULT_THRESHOLD) = {}

\* the latest step stored an entry under this key
StoredUnder(key) ==
  /\ event'.pc = "done" /\ event'.stored # Undef
  /\ getCacheKey(event'.url, event'.requestBody) = key

\* C21: no step of the wrapper removes a cache-entry folder, an entry file or
\* a sidecar file; an entry lookup finds stays found, and its meta.json and
\* response.json keep their content until a store under the same key.
C21_NothingIsDeleted ==
  [][/\ fs.folders \subseteq fs'.folders
     /\ DOMAIN fs.meta \subseteq DOMAIN fs'.meta
     /\ DOMAIN fs.request \subseteq DOMAIN fs'.request
     /\ DOMAIN fs.response \subseteq DOMAIN fs'.response
     /\ fs.sidecarDir.exists => fs'.sidecarDir.exists
     /\ DOMAIN fs.sidecarDir.files \subseteq DOMAIN fs'.sidecarDir.files
     /\ \A r \in DOMAIN captured :
          getCachedResponse(fs, r[1], r[2]).found
          => /\ getCachedResponse(fs', r[1], r[2]).found
             /\ \/ getCachedResponse(fs', r[1], r[2]) = getCachedResponse(fs, r[1], r[2])
                \/ StoredUnder(getCacheKey(r[1], r[2]))]_vars

\* a stale call has overwritten its entry while a sidecar file of an earlier
\* store is on disk
C21_Witness ==
  /\ Returned /\ event.path = "stale"
  /\ DOMAIN fs.sidecarDir.files # {}
  /\ event.upstream.body # <<Q>> \o LongString \o <<Q>>

\* C22: an encode leaves every sidecar file that existed before it in place
\* with the content it had, also when the encode itself produces a sidecar
\* of that name.
C22_SidecarsAreWriteOnce ==
  (lab.op = "codec" /\ lab.phase # "idle")
  => \A name \in DOMAIN lab.before.files \ lab.removed :
       /\ name \in DOMAIN lab.dir.files
       /\ lab.dir.files[name] = lab.before.files[name]

\* the latest encode externalized a string whose sidecar file existed already
C22_Witness ==
  /\ lab.op = "codec" /\ lab.phase = "encoded" /\ lab.n = 2
  /\ \E name \in DOMAIN lab.before.files :
       /\ DocRefersTo(lab.doc, name)
       /\ name \in DOMAIN lab.dir.files

\* the three files under a key all come from one store: the one that
\* captured this transport response for this request at this time
EntryWrittenBy(key, url, requestBody, upstream, timestamp) ==
  /\ HasEntryFiles(key)
  /\ Get(fs.meta[key], Kkey) = Str(key)
  /\ Get(fs.meta[key], Kurl) = Str(url)
  /\ Get(fs.meta[key], Ktimestamp) = Num(timestamp)
  /\ Get(fs.meta[key], Kstatus) = Num(upstream.status)
  /\ Get(fs.meta[key], KstatusText) = Str(upstream.statusText)
  /\ Get(fs.meta[key], Ksuccess) = Bool(upstream.status >= 200 /\ upstream.status < 300)
  /\ parse(fs.request[key], fs.sidecarDir) = requestBody
  /\ parse(fs.response[key], fs.sidecarDir) = ExpectedSnapshot(upstream, timestamp)

\* C23: with calls for one request in flight together, the entry under the
\* key is at every moment the whole entry of the call that stored last:
\* its meta.json, request.json and response.json.
C23_LastStoreWinsWhole ==
  /\ \A r \in DOMAIN captured :
       EntryWrittenBy(getCacheKey(r[1], r[2]), r[1], r[2],
                      captured[r].upstream, captured[r].timestamp)
  /\ (Returned /\ event.path \in {"miss", "stale"})
     => /\ event.fetched = 1
        /\ EntryWrittenBy(KeyOf(event), event.url, event.requestBody, event.upstream, now)

\* the first of two overlapping calls for one request returns after the
\* second has stored: both missed, both called the transport, and the second
\* call's store (which left a sidecar file) is overwritten
C23_Witness ==
  /\ Returned /\ event.seq = 1 /\ event.path = "miss"
  /\ invocations = 2 /\ transportCalls = 2
  /\ \A c \in Calls : calls[c].pc = "idle"
  /\ Cardinality(fs.folders) = 1
  /\ DOMAIN fs.sidecarDir.files # {}
  /\ event.upstream.body # <<Q>> \o LongString \o <<Q>>

\* the keys that have a folder or a file on the given disk
KeysOn(f) == f.folders \cup DOMAIN f.meta \cup DOMAIN f.request \cup DOMAIN f.response

\* the folder of a key and the files in it, as far as they exist
FolderOf(f, key) ==
  [exists |-> key \in f.folders,
   meta |-> IF key \in DOMAIN f.meta THEN f.meta[key] ELSE Undef,
   request |-> IF key \in DOMAIN f.request THEN f.request[key] ELSE Undef,
   response |-> IF key \in DOMAIN f.response THEN f.response[key] ELSE Undef]

\* C24: a step that stores under one key leaves the folder of every other
\* key as it was (nothing created, changed or removed), so lookup gives the
\* same result for every other request before and after the step.
C24_StoresDoNotInterfere ==
  [][\A key \in KeysOn(fs) \cup KeysOn(fs') :
       ~StoredUnder(key)
       => /\ FolderOf(fs', key) = FolderOf(fs, key)
          /\ \A r \in DOMAIN captured :
               getCacheKey(r[1], r[2]) = key
               => getCachedResponse(fs', r[1], r[2]) = getCachedResponse(fs, r[1], r[2])]_vars

\* a call has just stored its entry while the entry of another key is on disk
C24_Witness ==
  /\ Returned /\ event.path = "miss"
  /\ Cardinality(fs.folders) = 2
  /\ \E key \in fs.folders : key # KeyOf(event) /\ HasEntryFiles(key)

\* y is x with every string longer than maxLen cut to its first maxLen
\* characters followed by a suffix that states the original length, and
\* everything else (the shape, the keys and their order) as in x
RECURSIVE TruncatedCopy(_, _, _)
TruncatedCopy(x, y, maxLen) ==
  CASE x.k = "str" ->
         IF Len(x.v) > maxLen
         THEN /\ y.k = "str"
              /\ Len(y.v) > maxLen
              /\ Take(y.v, maxLen) = Take(x.v, maxLen)
              /\ IndexOf(Drop(y.v, maxLen), Digits(Len(x.v))) > 0
         ELSE y = x
    [] x.k = "arr" ->
         /\ y.k = "arr"
         /\ Len(y.v) = Len(x.v)
         /\ \A i \in 1..Len(x.v) : TruncatedCopy(x.v[i], y.v[i], maxLen)
    [] x.k = "obj" ->
         /\ y.k = "obj"
         /\ Len(y.v) = Len(x.v)
         /\ \A i \in 1..Len(x.v) :
              /\ y.v[i][1] = x.v[i][1]
              /\ TruncatedCopy(x.v[i][2], y.v[i][2], maxLen)
    [] OTHER -> y = x

\* C25: truncateForLog returns its argument with every string longer than
\* maxLen cut to maxLen characters plus a suffix stating the original
\* length, shorter strings and null, numbers and booleans unchanged, arrays
\* and objects of the same length, keys and order.
C25_TruncateKeepsShape ==
  (lab.op = "truncate" /\ lab.done) => TruncatedCopy(lab.value, lab.result, lab.maxLen)

\* C26: on the miss/stale path the body text is read from a clone, so the
\* transport's response is left unread, and the caller receives a response
\* whose body is unread and holds the whole body text of the transport's
\* response.
C26_CallerGetsUnreadBody ==
  (Returned /\ event.path \in {"miss", "stale"})
  => /\ ~event.result.resp.bodyUsed
     /\ event.result.resp.body = event.upstream.body
     /\ ~event.upstream.bodyUsed
     /\ Get(event.stored, Kbody) = Get(ExpectedSnapshot(event.upstream, now), Kbody)

\* a miss has returned a transport response with a body that is not empty,
\* and the body was captured for the cache
C26_Witness ==
  /\ Returned /\ event.path = "miss"
  /\ event.upstream.body = <<"h", "i">>
  /\ Get(Get(event.stored, Kbody), Ktext) = Str(<<"h", "i">>)
  /\ event.result.resp.body = <<"h", "i">>

\* a stored body has exactly one of the members json and text
OneRepresentation(body) ==
  /\ body.k = "obj"
  /\ HasKey(body, Kjson) # HasKey(body, Ktext)

\* C27: every response snapshot the wrapper writes has `json` (the parsed
\* value, also when it is null, false, 0 or "") if the captured text parses
\* as JSON and `text` otherwise (also for the empty body), never both and
\* never neither; a hit on a snapshot that has `json` returns the
\* serialization of that value.
C27_BodyIsJsonOrText ==
  /\ \A key \in DOMAIN fs.response : OneRepresentation(Get(fs.response[key], Kbody))
  /\ (Returned /\ event.path \in {"miss", "stale"})
     => LET body == Get(fs.response[KeyOf(event)], Kbody)
            text == event.upstream.body
        IN /\ OneRepresentation(Get(event.stored, Kbody))
           /\ JSONparse(text).ok
              => HasKey(body, Kjson) /\ Get(body, Kjson) = JSONparse(text).val
           /\ ~JSONparse(text).ok
              => HasKey(body, Ktext) /\ Get(body, Ktext) = Str(text)
  /\ (Returned /\ event.path = "hit")
     => LET body == Get(fs.response[KeyOf(event)], Kbody)
        IN event.result.resp.body =
             IF HasKey(body, Kjson) THEN JSONstringify(Get(body, Kjson))
             ELSE Get(body, Ktext).v

\* a hit on an entry whose stored body is the JSON value null
C27_Witness ==
  /\ Returned /\ event.path = "hit"
  /\ HasKey(Get(fs.response[KeyOf(event)], Kbody), Kjson)
  /\ Get(Get(fs.response[KeyOf(event)], Kbody), Kjson) = Null
  /\ event.result.resp.body = <<"n", "u", "l", "l">>

\* C28: the key of a request is the digest of the url followed by the
\* serialization of the body as it was given, which is the key the
\* single-file cache derives for the same request.
C28_NormalizationIsIdentity ==
  (lab.op = "key" /\ lab.done)
  => /\ lab.keyA = Sha256Hex(lab.a.url \o JSONstringify(lab.a.body))
     /\ lab.keyA = lab.keyA0

\* the message of the error object of a response snapshot whose body is
\* JSON, Undef if there is none or it is not a string
ErrorMessageOf(response) ==
  LET json == Get(Get(response, Kbody), Kjson)
      message == Get(Get(json, Kerror), Kmessage)
  IN IF json.k = "obj" /\ Get(json, Kerror).k = "obj" /\ message.k = "str"
     THEN message ELSE Undef

\* C29: meta.json of a store has errorMessage exactly if the status is
\* outside [200, 300) and the stored body is JSON whose `error` is an object
\* with a string `message`, and then errorMessage is that string.
C29_ErrorMessageIffFailure ==
  (lab.op = "store" /\ lab.n > 0)
  => LET meta == lab.f.meta[getCacheKey(<<"u">>, lab.body)]
         status == Get(lab.response, Kstatus).v
         failed == status < 200 \/ status >= 300
         message == ErrorMessageOf(lab.response)
     IN /\ HasKey(meta, KerrorMessage) <=> (failed /\ message # Undef)
        /\ HasKey(meta, KerrorMessage) => Get(meta, KerrorMessage) = message
        /\ Get(meta, Ksuccess) = Bool(~failed)

\* a failed response with an error message has been stored
C29_Witness ==
  /\ lab.op = "store" /\ lab.n > 0
  /\ Get(lab.response, Kstatus) = Num(300)
  /\ Get(lab.f.meta[getCacheKey(<<"u">>, lab.body)], KerrorMessage) = Str(<<"n", "o">>)

\* the frames of the callers in a stack: the lines that are not frames of
\* request-cache.ts or the runtime and that the frame pattern matches
RECURSIVE CallerFrames(_, _)
CallerFrames(stack, i) ==
  IF i > Len(stack) THEN <<>>
  ELSE (IF ~stack[i].internal /\ stack[i].matched THEN <<Str(stack[i].frame)>> ELSE <<>>)
       \o CallerFrames(stack, i + 1)

\* C30: meta.json written by a wrapper call holds the frames of the stack
\* the call was entered with (not the stack at the time of the store), at
\* most five of them, and callerFile, when present, is the first of them.
C30_ProvenanceFixedAtInvocation ==
  (Returned /\ event.path \in {"miss", "stale"})
  => LET meta == fs.meta[KeyOf(event)]
         callers == CallerFrames(event.stack, 1)
         trace == Get(meta, KstackTrace)
     IN /\ trace.k = "arr"
        /\ Len(trace.v) <= 5
        /\ Len(trace.v) = (IF Len(callers) < 5 THEN Len(callers) ELSE 5)
        /\ \A i \in 1..Len(trace.v) : trace.v[i] = callers[i]
        /\ HasKey(meta, KcallerFile) <=> callers # <<>>
        /\ HasKey(meta, KcallerFile) => Get(meta, KcallerFile) = trace.v[1]

\* a call entered from six caller frames has stored after a call entered
\* from one caller frame was invoked
C30_Witness ==
  /\ Returned /\ event.path \in {"miss", "stale"}
  /\ Len(CallerFrames(event.stack, 1)) = 6
  /\ Len(Get(fs.meta[KeyOf(event)], KstackTrace).v) = 5
  /\ Get(fs.meta[KeyOf(event)], KcallerFile) = Str(<<"a", ":", "1", ":", "2">>)
  /\ invocations = 2

\* some string of the original value v was replaced by a placeholder in the
\* document d, and the decode left that placeholder in its result g
RECURSIVE PlaceholderLeft(_, _, _)
PlaceholderLeft(v, d, g) ==
  CASE v.k = "str" -> d # v /\ g = d
    [] v.k = "arr" -> \E i \in 1..Len(v.v) : PlaceholderLeft(v.v[i], d.v[i], g.v[i])
    [] v.k = "obj" -> \E i \in 1..Len(v.v) : PlaceholderLeft(v.v[i][2], d.v[i][2], g.v[i][2])
    [] OTHER -> FALSE

\* C31: hasUnresolvedRefs of a decoded value is true exactly if the decode
\* left a reference placeholder unresolved somewhere in it; it is false
\* when no sidecar file was missing.
C31_ReportsUnresolvedOnly ==
  (lab.op = "codec" /\ lab.phase = "decoded")
  => /\ lab.unresolved <=> PlaceholderLeft(lab.value, lab.doc, lab.decoded)
     /\ lab.removed = {} => ~lab.unresolved

\* C32: when a mkdirSync or writeFileSync of the store throws on the
\* miss/stale path, the wrapper call rejects with that error: the caller
\* gets no response, although the transport had answered.
C32_WriteFailurePropagates ==
  (lab.op = "fault" /\ event.pc = "done" /\ event.seq = lab.seq /\ event.path # "hit"
     /\ lab.failAt # "none")
  => /\ event.result.kind = "error"
     /\ event.result.resp = NoResp
     /\ event.upstream # NoResp
     /\ event.fetched = 1

\* the write of response.json has thrown in a stale call, and in a call
\* whose response needed a sidecar file the write of that file
C32_Witness ==
  /\ lab.op = "fault" /\ event.pc = "done" /\ event.seq = lab.seq
  /\ event.path = "stale"
  /\ lab.failAt \in {"response", "sidecar"}
  /\ event.upstream.status = 200
  /\ event.result.kind = "error"

\* C35: whenever meta.json and response.json of a key both exist and parse,
\* they agree on status, statusText and timestamp, also after a store that
\* a filesystem error cut short.
C35_MetaMatchesResponse ==
  \A key \in DOMAIN fs.meta \cap DOMAIN fs.response :
    (ParseFile(fs.meta[key]).ok /\ ParseFile(fs.response[key]).ok)
    => /\ Get(fs.meta[key], Kstatus) = Get(fs.response[key], Kstatus)
       /\ Get(fs.meta[key], KstatusText) = Get(fs.response[key], KstatusText)
       /\ Get(fs.meta[key], Ktimestamp) = Get(fs.response[key], Ktimestamp)

\* C33: whatever the interleaving of two writers, a main file that has been
\* written decodes to the value its writer encoded, and every sidecar file
\* a single encode of that value would write holds the content that encode
\* would give it.
C33_SameValueRacesHarmlessly ==
  lab.op = "race"
  => \A w \in Writers :
       lab.writers[w].phase = "done"
       => /\ parse(lab.writers[w].written, lab.dir) = lab.writers[w].value
          /\ LET alone == stringify(lab.writers[w].value, NoDir, RaceThreshold).dir.files
             IN \A name \in DOMAIN alone :
                  name \in DOMAIN lab.dir.files /\ lab.dir.files[name] = alone[name]

\* both writers are done, with different values that share a sidecar file,
\* abc.sidecar, which both have written
C33_Witness ==
  /\ lab.op = "race"
  /\ \A w \in Writers : lab.writers[w].phase = "done"
  /\ lab.writers[1].value # lab.writers[2].value
  /\ \A w \in Writers : DocRefersTo(lab.writers[w].written, Sabc \o SidecarSuffix)
  /\ lab.dir.files[Sabc \o SidecarSuffix] = Sabc

\* C34: a call answered from the cache is answered from an entry stored for
\* its own request: the entry's meta.json names the call's url and its
\* request.json holds the call's parsed body.
C34_HitIsForSameRequest ==
  (Returned /\ event.path = "hit")
  => /\ Get(fs.meta[KeyOf(event)], Kurl) = Str(event.url)
     /\ parse(fs.request[KeyOf(event)], fs.sidecarDir) = event.requestBody
     /\ RequestOf(event) \in DOMAIN captured

\* a status outside [200, 300)
ErrorStatus(status) == status < 200 \/ status > 299

\* C36: a transport response with an error status is stored on the miss
\* path, with success = false in meta.json, and a call for the same request
\* made while that capture is younger than ttlMs is answered from the cache
\* with that status, without a transport call.
C36_ErrorResponsesAreCached ==
  /\ (Returned /\ event.path \in {"miss", "stale"} /\ ErrorStatus(event.upstream.status))
     => /\ HasEntryFiles(KeyOf(event))
        /\ Get(fs.meta[KeyOf(event)], Ksuccess) = Bool(FALSE)
        /\ Get(fs.meta[KeyOf(event)], Kstatus) = Num(event.upstream.status)
        /\ Get(fs.response[KeyOf(event)], Kstatus) = Num(event.upstream.status)
        /\ getCachedResponse(fs, event.url, event.requestBody).found
  /\ (/\ JustInvoked /\ CacheableCall(event)
      /\ RequestOf(event) \in DOMAIN captured
      /\ ErrorStatus(captured[RequestOf(event)].upstream.status)
      /\ now - captured[RequestOf(event)].timestamp < ttlMs)
     => /\ Returned /\ event.path = "hit" /\ event.fetched = 0
        /\ event.result.resp.status = captured[RequestOf(event)].upstream.status

\* a call is answered from the cache with status 500
C36_Witness ==
  /\ Returned /\ event.path = "hit"
  /\ event.result.resp.status = 500
  /\ invocations = 2 /\ transportCalls = 1
  /\ captured[RequestOf(event)].upstream.status = 500

\* the positions a wrapper call moves through, in order
CallOrder == {<<"idle", "fetch">>, <<"idle", "pass">>, <<"pass", "idle">>,
              <<"fetch", "read">>, <<"fetch", "idle">>, <<"read", "idle">>}

\* C37: a call on the miss or stale path looks up, then calls the transport,
\* then reads the body, then stores, then returns: the files change only in
\* the step that returns such a call, the returned call leaves a complete
\* entry captured at the current time which lookup finds, and the same
\* request invoked in the very next step is answered from the cache when
\* ttlMs is positive.
C37_StoreCompletesBeforeReturn ==
  [][/\ \A c \in Calls :
          calls'[c].pc # calls[c].pc => <<calls[c].pc, calls'[c].pc>> \in CallOrder
     /\ fs' # fs
          => \E c \in Calls : /\ calls[c].pc = "read" /\ calls'[c].pc = "idle"
                              /\ calls[c].fetched = 1
                              /\ Returned' /\ event'.seq = calls[c].seq
     /\ (Returned' /\ event'.path \in {"miss", "stale"})
          => /\ event'.fetched = 1
             /\ \E c \in Calls : calls[c].pc = "read" /\ calls[c].seq = event'.seq
             /\ \E key \in {getCacheKey(event'.url, event'.requestBody)} :
                  /\ key \in fs'.folders
                  /\ key \in DOMAIN fs'.meta
                  /\ key \in DOMAIN fs'.request
                  /\ key \in DOMAIN fs'.response
                  /\ Get(fs'.response[key], Ktimestamp) = Num(now')
             /\ getCachedResponse(fs', event'.url, event'.requestBody).found
     /\ (/\ Returned /\ event.path \in {"miss", "stale"}
         /\ ttlMs > 0
         /\ (event'.pc \in {"fetch", "pass"} \/ (event'.pc = "done" /\ event'.path = "hit"))
         /\ event'.url = event.url /\ event'.body = event.body /\ event'.method = event.method)
          => /\ event'.pc = "done" /\ event'.result.kind = "response"
             /\ event'.path = "hit" /\ event'.fetched = 0
             /\ event'.cachedTimestamp = now
    ]_vars

\* a call is answered from an entry stored at the current time, after the
\* clock has moved
C37_Witness ==
  /\ Returned /\ event.path = "hit"
  /\ event.cachedTimestamp = now /\ now = 1
  /\ event.seq = 2 /\ transportCalls = 1

\* C38: a call that found a stale entry and then fails (the transport or the
\* body read throws) changes no file: the entry keeps its three files with
\* their content; while the entry's age is still at least ttlMs, the same
\* request invoked in the next step finds it stale again and calls the
\* transport.
C38_FailedRefreshKeepsStaleEntry ==
  [][/\ \A c \in Calls :
          (/\ calls[c].pc \in {"fetch", "read"} /\ calls[c].path = "stale"
           /\ event'.pc = "done" /\ event'.result.kind = "error"
           /\ event'.seq = calls[c].seq)
          => /\ fs' = fs
             /\ transportCalls' = transportCalls
             /\ HasEntryFiles(getCacheKey(calls[c].url, calls[c].requestBody))
             /\ StoredTimestamp(getCacheKey(calls[c].url, calls[c].requestBody))
                  >= calls[c].cachedTimestamp
     /\ (/\ Threw /\ event.path = "stale"
         /\ now - StoredTimestamp(KeyOf(event)) >= ttlMs
         /\ (event'.pc \in {"fetch", "pass"} \/ (event'.pc = "done" /\ event'.path = "hit"))
         /\ event'.url = event.url /\ event'.body = event.body /\ event'.method = event.method)
          => /\ event'.pc = "fetch" /\ event'.path = "stale"
             /\ event'.fetched = 1
             /\ event'.cachedTimestamp = StoredTimestamp(KeyOf(event))
             /\ transportCalls' = transportCalls + 1
    ]_vars

\* the second call finds the entry of the earlier run stale again and is at
\* the transport, after the first call's refresh failed there
C38_Witness ==
  /\ event.pc = "fetch" /\ event.path = "stale" /\ event.seq = 2
  /\ transportCalls = 2
  /\ \A c \in Calls : calls[c].pc # "idle" => calls[c].seq = 2
  /\ StoredTimestamp(KeyOf(event)) = 0
  /\ ttlMs = 2

\* every string of the document d that stands in for a string of the value
\* v names, read as restoreSidecarRef reads it, a file of dir whose content
\* is the replaced string or the payload of the replaced data URL
RECURSIVE PlaceholdersResolve(_, _, _)
PlaceholdersResolve(v, d, dir) ==
  CASE v.k = "str" ->
         \/ d = v
         \/ /\ d.k = "str"
            /\ extractSidecarHash(d.v).found
            /\ (extractSidecarHash(d.v).hash \o SidecarSuffix) \in DOMAIN dir.files
            /\ \E content \in {dir.files[extractSidecarHash(d.v).hash \o SidecarSuffix]} :
                 \/ content = v.v
                 \/ /\ DataUrlPrefixEnd(v.v) # 0
                    /\ content = Drop(v.v, DataUrlPrefixEnd(v.v))
    [] v.k = "arr" -> \A i \in 1..Len(v.v) : PlaceholdersResolve(v.v[i], d.v[i], dir)
    [] v.k = "obj" -> \A i \in 1..Len(v.v) : PlaceholdersResolve(v.v[i][2], d.v[i][2], dir)
    [] OTHER -> TRUE

\* C39: with no sidecar file deleted, every placeholder of a written
\* document names a sidecar file that exists in the directory and holds
\* exactly the string, or the data-URL payload, the placeholder replaced.
C39_NoDanglingReferences ==
  (lab.op = "codec" /\ lab.phase \in {"encoded", "decoded"} /\ lab.removed = {})
  => PlaceholdersResolve(lab.value, lab.doc, lab.dir)

\* a data URL whose media type contains the marker text was encoded after
\* another value: its placeholder has the marker twice
C39_Witness ==
  /\ lab.op = "codec" /\ lab.phase = "encoded" /\ lab.n = 2
  /\ lab.value = Str(DataUrl(SIDECAR_MARKER \o <<"x">>, Sabc))
  /\ lab.doc # lab.value
  /\ Cardinality(DOMAIN lab.dir.files) = 2
  /\ PlaceholdersResolve(lab.value, lab.doc, lab.dir)

====
